---- MODULE Spec2Model ----
(***************************************************************************)
(* A model of src/common/mfu_flist_archive.c: the parallel tar archiver of *)
(* mpiFileUtils.  Ranks are MPI processes; a collective is a step that is   *)
(* taken once every rank has reached it.  The archive is kept as the set    *)
(* of positional writes made to it, from which its bytes are derived.       *)
(***************************************************************************)
EXTENDS Integers, Sequences, FiniteSets, TLC

(***************************************************************************)
(* Bounds of the model and constants of the program.                        *)
(***************************************************************************)
MaxEntries == 2
MaxRanks == 2
\* opts->chunk_size and opts->buf_size of the modelled runs
ChunkSize == 512
BufSize == 400
\* bounds of the stand-alone checks of the entry partitioning and the index
MaxPartEntries == 6
MaxPartRanks == 4
MaxIdxCount == 2
\* bound on the number of source paths given to the check of the parameters
MaxParams == 1
\* bound on the number of progress messages of one run
MaxMessages == 1
\* tar block size and the size of the two terminating zero blocks
BlockSize == 512
TrailerSize == 1024
\* width of one index record, sizeof(uint64_t)
OffsetBytes == 8
\* stands for 2^64 - 1, the value of (uint64_t)0 - 1: larger than any
\* chunk index of the model and compared for equality only
UINT64_MAX == 2147483647
\* a word or byte of memory that was never set: its value is not known
Unknown == -1

\* the content of a file that does not exist: no sequence of bytes
Absent == << Unknown >>

MFU_SUCCESS == "MFU_SUCCESS"
MFU_FAILURE == "MFU_FAILURE"

Min(a, b) == IF a < b THEN a ELSE b

RECURSIVE SumSeq(_)
SumSeq(s) == IF s = <<>> THEN 0 ELSE Head(s) + SumSeq(Tail(s))

\* sum of f[q] over ranks q < r (the exclusive MPI_Scan used throughout)
RECURSIVE ScanBefore(_, _)
ScanBefore(f, r) == IF r = 0 THEN 0 ELSE f[r - 1] + ScanBefore(f, r - 1)

(***************************************************************************)
(* File list items.  hdr is the number of bytes the codec emits for the     *)
(* item's header, cur the number of bytes the source file holds when it is  *)
(* read back.                                                               *)
(***************************************************************************)
Item(t, s, h) == [type |-> t, size |-> s, hdr |-> h, cur |-> s]

CreateKinds ==
    { Item("FILE", 0, 512), Item("FILE", 512, 512), Item("FILE", 513, 512),
      Item("DIR", 0, 512), Item("LINK", 0, 512), Item("OTHER", 0, 0) }

\* the items of the layout check: header sizes that are and are not whole blocks
LayoutKinds ==
    { Item("FILE", s, h) : s \in {0, 1, 512, 513, 1025}, h \in {512, 1024, 100} }
    \cup { Item("DIR", 0, h) : h \in {512, 100} }
    \cup { Item("LINK", 0, 512), Item("OTHER", 7, 0) }

ListsOver(kinds, n) == UNION { [1..k -> kinds] : k \in 0..n }

\* the ways a sorted list of n items is spread over R ranks in rank order
Partitions(n, R) == { c \in [0..(R - 1) -> 0..n] : ScanBefore(c, R) = n }

VARIABLES
    flist,        \* the sorted global file list
    ranks,        \* number of MPI ranks
    counts,       \* counts[r]: mfu_flist_size on rank r
    create_libcircle, \* opts->create_libcircle
    bigEndian,    \* byte order of the build
    pc,           \* pc[r]: where rank r is in create
    DTAR_err,     \* DTAR_err[r]
    lay,          \* lay[r]: header_sizes, entry_sizes, offsets, data_offsets, offset, data_bytes
    archive_size, \* archive_size after the MPI_Allreduce
    index_file,   \* bytes of <archive>.idx, or Absent
    archive_len,  \* length of the archive file
    archive_old,  \* TRUE while bytes of an earlier archive are still in the file
    writes,       \* positional writes made to the archive
    nwrites,      \* nwrites[r]: number of writes rank r has made
    gathered,     \* rank_disps and all_offsets of the static engine
    data_chunks,  \* data_chunks[r]: chunk list of rank r
    queue,        \* libcircle work items not yet dequeued
    rc,           \* rc[r]: what create returns on rank r
    src_cache,    \* src_cache[r]: mfu_archive_src_cache on rank r
    xranks,       \* number of MPI ranks of the extract run
    extract_libarchive, \* opts->extract_libarchive
    faults,       \* the I/O steps that fail in this run, as pairs <<rank, step>>
    env,          \* what surrounds the run: environment variables, earlier runs
    failed,       \* the I/O steps that have failed so far
    xpc,          \* xpc[r]: where rank r is in extract
    ext,          \* ext[r]: the local variables of extract on rank r
    disk          \* disk[g]: what extract has made of item g, [type |-> "none"] if nothing

\* what a run does not change
fixed == << flist, ranks, counts, create_libcircle, bigEndian, xranks,
           extract_libarchive, faults, env >>

cvars == << pc, DTAR_err, lay, archive_size, index_file, archive_len, archive_old,
            writes, nwrites, gathered, data_chunks, queue, rc, failed, src_cache >>

xvars == << xpc, ext, disk >>

vars == << fixed, cvars, xvars >>

Ranks == 0..(ranks - 1)

XRanks == 0..(xranks - 1)

\* mfu_archive_opts_new: the default values of the options
mfu_archive_opts_new ==
    [dest_path |-> "NULL", create_libcircle |-> 0, extract_libarchive |-> 0]

\* nothing is set in the environment, no extract has run before and the
\* parameters were not checked
NoEnv ==
    [create |-> "unset", again |-> FALSE, cut |-> FALSE, returned |-> <<>>, left |-> <<>>,
     option |-> mfu_archive_opts_new.create_libcircle,
     numparams |-> 0, readable |-> <<>>, path_stat_valid |-> FALSE, writable |-> <<>>,
     valid |-> <<>>, dest_path |-> <<>>,
     progress_timeout |-> 0, messages |-> 0, first |-> <<>>]

\* a run without I/O errors that extracts without libarchive
Nominal == faults = {} /\ extract_libarchive = 0 /\ env = NoEnv

\* the I/O steps of create that can fail; the archive file is truncated, its
\* trailer and the index are written by rank 0 only
RankFaults == {"open", "encode", "header", "hshort", "srcopen", "read", "write",
               "wshort", "close"}

RootFaults == {"truncate", "trailer", "index"}

\* step what fails on rank r: it is one of the failing steps, or it uses the
\* descriptor of the archive and the rank could not open the archive
Fails(r, what) ==
    \/ << r, what >> \in faults
    \/ /\ << r, "open" >> \in faults
       /\ what \in {"truncate", "header", "write", "trailer", "close"}

\* the failed steps once step what of rank r has been taken
Hit(r, what) == IF Fails(r, what) THEN failed \cup { << r, what >> } ELSE failed

\* mfu_flist_global_offset on rank r
GlobalStart(r) == ScanBefore(counts, r)

\* the part of the list rank r holds
LocalList(r) == SubSeq(flist, GlobalStart(r) + 1, GlobalStart(r) + counts[r])

(***************************************************************************)
(* The cache of the file opened last (mfu_archive_file_cache_t)             *)
(***************************************************************************)

\* a cache slot holding no file
NULL == 0

\* a slot as the program starts with it: name is the path of the cached file,
\* read its mode, nfds the number of descriptors opened through the slot that
\* are open, gen what changes whenever mfu_open returns a descriptor for the
\* slot, last what the latest call on the slot did
NoCache == [name |-> NULL, read |-> 0, nfds |-> 0, gen |-> 0, last |-> "none"]

\* mfu_archive_close_file: the cached descriptor, if any, is closed
mfu_archive_close_file(cache) ==
    IF cache.name # NULL
    THEN [cache EXCEPT !.name = NULL, !.nfds = @ - 1, !.last = "closed"]
    ELSE [cache EXCEPT !.last = "none"]

\* an open that never closes the descriptor it replaces
mfu_archive_open_file_leak(file, read_flag, cache, ok) ==
    IF ~ok THEN [cache EXCEPT !.name = NULL, !.last = "failed"]
    ELSE [name |-> file, read |-> read_flag, nfds |-> cache.nfds + 1,
          gen |-> 1 - cache.gen, last |-> "opened"]

\* mfu_archive_open_file: file is opened with mode read_flag unless the slot
\* holds it with that mode; ok tells whether mfu_open succeeds
mfu_archive_open_file(file, read_flag, cache, ok) ==
    IF cache.name # NULL /\ cache.name = file /\ cache.read = read_flag
    THEN [cache EXCEPT !.last = "cached"]
    ELSE LET c == IF cache.name # NULL THEN mfu_archive_close_file(cache) ELSE cache
         IN  IF ~ok THEN [c EXCEPT !.last = "failed"]
             ELSE [name |-> file, read |-> read_flag, nfds |-> c.nfds + 1,
                   gen |-> 1 - c.gen, last |-> "opened"]

(***************************************************************************)
(* Layout                                                                   *)
(***************************************************************************)

\* bytes encode_header reports in *outsize for an item
encode_header(e) == e.hdr

\* the rounding gone wrong: down instead of up, left out, one block too many
PadSizeDown(fsize) == (fsize \div BlockSize) * BlockSize

PadSizeNone(fsize) == fsize

PadSizeAlways(fsize) == (fsize \div BlockSize) * BlockSize + BlockSize

\* the file size rounded up to a whole number of 512-byte blocks
PadSize(fsize) ==
    LET fsize_padded == (fsize \div BlockSize) * BlockSize
    IN  IF fsize_padded < fsize THEN fsize_padded + BlockSize ELSE fsize_padded

HeaderSizeOf(e) ==
    IF e.type \in {"DIR", "LINK", "FILE"} THEN encode_header(e) ELSE 0

EntrySizeOf(e) ==
    IF e.type \in {"DIR", "LINK"} THEN encode_header(e)
    ELSE IF e.type = "FILE" THEN encode_header(e) + PadSize(e.size)
    ELSE 0

\* the local variables of extract before it runs
NoExtract ==
    [ret |-> "none", entries |-> 0, offsets |-> <<>>, entry_start |-> 0, entry_count |-> 0,
     items |-> <<>>, doffsets |-> <<>>, data_offsets |-> <<>>, chunks |-> <<>>,
     rc |-> MFU_SUCCESS, have_index |-> TRUE, have_offsets |-> TRUE,
     main_rc |-> MFU_SUCCESS, returned |-> "none", hit |-> {}, fds |-> 0]

\* no extract has started: the run has xrs ranks and the target directory is empty
ExtractInit(xrs) ==
    /\ xranks \in xrs
    /\ xpc = [r \in XRanks |-> "idle"]
    /\ ext = [r \in XRanks |-> NoExtract]
    /\ disk = [g \in 1..Len(flist) |-> [type |-> "none", segs |-> {}, meta |-> FALSE]]

EmptyLayout ==
    [header_sizes |-> <<>>, entry_sizes |-> <<>>, offsets |-> <<>>,
     data_offsets |-> <<>>, offset |-> 0, data_bytes |-> 0, encode_rc |-> MFU_SUCCESS]

\* the loop over the local list that fills header_sizes, entry_sizes and offsets
RECURSIVE LayoutLoop(_, _, _)
LayoutLoop(list, idx, acc) ==
    IF idx > Len(list) THEN acc
    ELSE LET e == list[idx]
         IN  LayoutLoop(list, idx + 1,
                [acc EXCEPT
                    !.header_sizes = Append(@, HeaderSizeOf(e)),
                    !.entry_sizes  = Append(@, EntrySizeOf(e)),
                    !.offsets      = Append(@, acc.offset),
                    !.offset       = @ + EntrySizeOf(e),
                    !.data_bytes   = @ + (IF e.type = "FILE" THEN PadSize(e.size) ELSE 0)])

\* the scan without the subtraction of the rank's own total
ScanBaseInclusive(totals, r) == ScanBefore(totals, r) + totals[r]

\* the global base offset of a rank: MPI_Scan of the local totals minus its own
ScanBase(totals, r) == (ScanBefore(totals, r) + totals[r]) - totals[r]

\* offsets[idx] += global_offset; data_offsets[idx] = offsets[idx] + header_sizes[idx]
Globalize(l, global_offset) ==
    [l EXCEPT
        !.offsets      = [i \in 1..Len(l.offsets) |-> l.offsets[i] + global_offset],
        !.data_offsets = [i \in 1..Len(l.offsets) |->
                             l.offsets[i] + global_offset + l.header_sizes[i]]]

CreateInitAt(lists, engines, orders, lens, at) ==
    /\ ranks \in 1..MaxRanks
    /\ flist \in lists
    /\ counts \in Partitions(Len(flist), ranks)
    /\ create_libcircle \in engines
    /\ bigEndian \in orders
    /\ pc = [r \in Ranks |-> at]
    /\ DTAR_err = [r \in Ranks |-> 0]
    /\ src_cache = [r \in Ranks |-> NoCache]
    /\ lay = [r \in Ranks |-> EmptyLayout]
    /\ archive_size = 0
    /\ index_file \in {Absent}
    /\ archive_len \in lens
    /\ archive_old = (archive_len > 0)
    /\ writes = {}
    /\ nwrites = [r \in Ranks |-> 0]
    /\ gathered = [rank_disps |-> <<>>, all_offsets |-> <<>>]
    /\ data_chunks = [r \in Ranks |-> <<>>]
    /\ queue = {}
    /\ rc = [r \in Ranks |-> "none"]
    /\ failed = {}

\* the state in which every rank is about to run one of the two engines
CreateInit(lists, engines, orders, lens) ==
    CreateInitAt(lists, engines, orders, lens, "start")

\* the layout loop calls encode_header for some item of the list
Encoded(list) == \E i \in 1..Len(list) : list[i].type \in {"FILE", "DIR", "LINK"}

\* mfu_flist_archive_create_*: the archive is opened and the local layout computed;
\* encode_rc is the value encode_header returned to the layout loop, which the
\* loop does not read
Layout(r) ==
    /\ pc[r] = "start"
    /\ DTAR_err' = [DTAR_err EXCEPT ![r] = IF Fails(r, "open") THEN 1 ELSE 0]
    /\ failed' = Hit(r, "open")
    /\ lay' = [lay EXCEPT ![r] =
                  [LayoutLoop(LocalList(r), 1, EmptyLayout) EXCEPT
                      !.encode_rc = IF Fails(r, "encode") /\ Encoded(LocalList(r))
                                    THEN MFU_FAILURE ELSE MFU_SUCCESS]]
    /\ pc' = [pc EXCEPT ![r] = "scan"]
    /\ UNCHANGED << fixed, xvars, src_cache, archive_size,
                    index_file, archive_len, archive_old, writes, nwrites, gathered,
                    data_chunks, queue, rc >>

\* the two MPI_Allreduce and the MPI_Scan, and the update of the local offsets
LayoutSync ==
    /\ \A r \in Ranks : pc[r] = "scan"
    /\ LET totals == [r \in Ranks |-> lay[r].offset]
       IN  /\ archive_size' = ScanBefore(totals, ranks)
           /\ lay' = [r \in Ranks |-> Globalize(lay[r], ScanBase(totals, r))]
    /\ pc' = [r \in Ranks |-> "index"]
    /\ UNCHANGED << fixed, xvars, src_cache, DTAR_err,
                    index_file, archive_len, archive_old, writes, nwrites, gathered,
                    data_chunks, queue, rc, failed >>

(***************************************************************************)
(* The entry index <archive>.idx                                            *)
(***************************************************************************)

\* mfu_pack_uint64: the eight bytes of v, most significant first
RECURSIVE PackBytes(_, _)
PackBytes(v, n) == IF n = 0 THEN <<>> ELSE Append(PackBytes(v \div 256, n - 1), v % 256)

mfu_pack_uint64(v) ==
    IF v = Unknown THEN [i \in 1..OffsetBytes |-> Unknown] ELSE PackBytes(v, OffsetBytes)

\* mfu_unpack_uint64: the value of eight bytes, most significant first
RECURSIVE UnpackBytes(_, _)
UnpackBytes(b, acc) == IF b = <<>> THEN acc ELSE UnpackBytes(Tail(b), acc * 256 + Head(b))

mfu_unpack_uint64(b) ==
    IF \E i \in 1..Len(b) : b[i] = Unknown THEN Unknown ELSE UnpackBytes(b, 0)

\* what MPI reads as one MPI_INT at the address of a uint64_t holding v < 2^31:
\* the low word where the least significant byte comes first, else the high word
FirstIntOf(v) == IF bigEndian THEN 0 ELSE v

\* a gather that places the first item of every rank in all of its slots
GatherVFirst(recvcounts, displs, data, total) ==
    [i \in 1..total |->
        IF \E r \in DOMAIN displs : displs[r] < i /\ i <= displs[r] + recvcounts[r]
        THEN LET r == CHOOSE q \in DOMAIN displs :
                          displs[q] < i /\ i <= displs[q] + recvcounts[q]
             IN  data[r][1]
        ELSE Unknown]

\* the receive buffer of MPI_Gatherv / MPI_Allgatherv: rank r's items are placed
\* at displs[r]; slots no rank's items land in keep what malloc left there
GatherV(recvcounts, displs, data, total) ==
    [i \in 1..total |->
        IF \E r \in DOMAIN displs : displs[r] < i /\ i <= displs[r] + recvcounts[r]
        THEN LET r == CHOOSE q \in DOMAIN displs :
                          displs[q] < i /\ i <= displs[q] + recvcounts[q]
             IN  data[r][i - displs[r]]
        ELSE Unknown]

RECURSIVE PackAll(_)
PackAll(all_offsets) ==
    IF all_offsets = <<>> THEN <<>>
    ELSE mfu_pack_uint64(Head(all_offsets)) \o PackAll(Tail(all_offsets))

\* write_entry_index(file, count, offsets) called by every one of n ranks: the bytes rank 0
\* writes.  When a rank hands MPI_Gatherv more items than the root expects, MPI
\* either reports the truncation, which ends the job ("abort"), or drops them.
write_entry_index(n, count, offs, reported) ==
    LET total       == ScanBefore(count, n)
        offset      == [r \in 0..(n - 1) |-> (ScanBefore(count, r) + count[r]) - count[r]]
        count_int   == count
        rank_counts == [r \in 0..(n - 1) |-> FirstIntOf(count[r])]
        rank_disps  == [r \in 0..(n - 1) |-> FirstIntOf(offset[r])]
        all_offsets == GatherV(rank_counts, rank_disps, offs, total)
    IN  IF reported /\ \E r \in 0..(n - 1) : count_int[r] > rank_counts[r]
        THEN "abort"
        ELSE PackAll(all_offsets)

\* the call of write_entry_index in create, which ignores its return value
WriteIndex ==
    /\ \A r \in Ranks : pc[r] = "index"
    /\ \E reported \in BOOLEAN :
        LET bytes == write_entry_index(ranks, counts, [r \in Ranks |-> lay[r].offsets],
                                       reported)
        IN  IF bytes = "abort"
            THEN /\ pc' = [r \in Ranks |-> "aborted"]
                 /\ UNCHANGED index_file
            ELSE /\ pc' = [r \in Ranks |-> IF r = 0 THEN "truncate" ELSE "barrier"]
                 /\ index_file' = IF Fails(0, "index") THEN index_file ELSE bytes
    /\ failed' = Hit(0, "index")
    /\ UNCHANGED << fixed, xvars, src_cache, DTAR_err, lay,
                    archive_size, archive_len, archive_old, writes, nwrites, gathered,
                    data_chunks, queue, rc >>

(***************************************************************************)
(* Writes to the archive                                                    *)
(***************************************************************************)

\* one write of len bytes at off; ent is the global index of the item whose
\* header or data it carries and foff the position of the data in its file;
\* req is the count the caller asked for and len the count transferred
Wr(kind, off, len, ent, foff) ==
    [kind |-> kind, off |-> off, len |-> len, ent |-> ent, foff |-> foff, req |-> len]

\* the value mfu_pwrite returns for a request of count bytes that does not fail:
\* the bytes transferred, one less than asked for when the write is short
mfu_pwrite(count, short) == IF short /\ count > 0 THEN count - 1 ELSE count

\* write w when mfu_pwrite transfers a short count
Cut(w) == [w EXCEPT !.len = mfu_pwrite(w.req, TRUE)]

\* the writes of the sequence ws as made by rank r after its first n writes
Stamp(r, n, ws) ==
    { [kind |-> ws[i].kind, rank |-> r, seq |-> n + i, off |-> ws[i].off,
       len |-> ws[i].len, ent |-> ws[i].ent, foff |-> ws[i].foff,
       req |-> ws[i].req] : i \in 1..Len(ws) }

RECURSIVE MaxEnd(_, _)
MaxEnd(ws, len) ==
    IF ws = <<>> THEN len
    ELSE MaxEnd(Tail(ws), IF Head(ws).off + Head(ws).len > len
                          THEN Head(ws).off + Head(ws).len ELSE len)

\* The bytes of the archive.  A byte is named by what it carries: byte k of the
\* header of item g, byte k of the content of item g, or zero.
Covers(w, p) == w.off <= p /\ p < w.off + w.len

ByteOf(w, p) ==
    CASE w.kind = "hdr"  -> << "hdr", w.ent, p - w.off >>
      [] w.kind = "data" -> << "data", w.ent, w.foff + (p - w.off) >>
      [] OTHER           -> << "zero", 0, 0 >>

\* the values byte p of the archive can have, given the writes made so far
ArchiveBytes(p) ==
    IF \E w \in writes : Covers(w, p)
    THEN { ByteOf(w, p) : w \in { v \in writes : Covers(v, p) } }
    ELSE IF archive_old THEN { << "old", 0, p >> } ELSE { << "zero", 0, 0 >> }

\* rank 0 truncates the archive to 0 and extends it to its final size
Truncate ==
    /\ pc[0] = "truncate"
    /\ LET final_size == archive_size + 2 * BlockSize
       IN  archive_len' = IF Fails(0, "truncate") THEN archive_len ELSE final_size
    /\ archive_old' = IF Fails(0, "truncate") THEN archive_old ELSE FALSE
    /\ failed' = Hit(0, "truncate")
    /\ pc' = [pc EXCEPT ![0] = "barrier"]
    /\ UNCHANGED << fixed, xvars, src_cache, DTAR_err, lay,
                    archive_size, index_file, writes, nwrites, gathered, data_chunks,
                    queue, rc >>

\* a barrier that lets a rank through before the others have reached it
BarrierHeadersEarly ==
    /\ \E r \in Ranks : pc[r] = "barrier" /\ pc' = [pc EXCEPT ![r] = "headers"]
    /\ UNCHANGED << fixed, xvars, src_cache, DTAR_err, lay,
                    archive_size, index_file, archive_len, archive_old, writes, nwrites,
                    gathered, data_chunks, queue, rc, failed >>

\* the MPI_Barrier after the truncate
BarrierHeaders ==
    /\ \A r \in Ranks : pc[r] = "barrier"
    /\ pc' = [r \in Ranks |-> "headers"]
    /\ UNCHANGED << fixed, xvars, src_cache, DTAR_err, lay,
                    archive_size, index_file, archive_len, archive_old, writes, nwrites,
                    gathered, data_chunks, queue, rc, failed >>

\* write_header for local item idx of rank r: the header is encoded again and
\* written at the item's offset
write_header(r, idx) ==
    LET e == LocalList(r)[idx]
        header_size == encode_header(e)
    IN  Wr("hdr", lay[r].offsets[idx], header_size, GlobalStart(r) + idx, 0)

\* a header loop that calls write_header for the items of every type
HeaderWritesAll(r) == [k \in 1..counts[r] |-> write_header(r, k)]

\* the loop that writes the headers of the local items of supported type
HeaderWrites(r) ==
    LET idxs == SelectSeq([i \in 1..counts[r] |-> i],
                          LAMBDA i : LocalList(r)[i].type \in {"FILE", "DIR", "LINK"})
    IN  [k \in 1..Len(idxs) |-> write_header(r, idxs[k])]

WriteHeaders(r) ==
    /\ pc[r] = "headers"
    /\ LET bad == Fails(r, "header") /\ HeaderWrites(r) # <<>>
           hs  == HeaderWrites(r)
           ws  == IF bad THEN <<>>
                  ELSE IF Fails(r, "hshort")
                       THEN [k \in 1..Len(hs) |-> IF k = 1 THEN Cut(hs[k]) ELSE hs[k]]
                       ELSE hs
       IN  /\ writes' = writes \cup Stamp(r, nwrites[r], ws)
           /\ nwrites' = [nwrites EXCEPT ![r] = @ + Len(ws)]
           /\ archive_len' = MaxEnd(ws, archive_len)
           /\ DTAR_err' = [DTAR_err EXCEPT ![r] = IF bad THEN 1 ELSE @]
           /\ failed' = IF bad THEN failed \cup { << r, "header" >> } ELSE failed
    /\ pc' = [pc EXCEPT ![r] = IF create_libcircle = 1 THEN "circle_init" ELSE "gather"]
    /\ UNCHANGED << fixed, xvars, src_cache, lay,
                    archive_size, index_file, archive_old, gathered, data_chunks,
                    queue, rc >>

\* bytes a read of n bytes at pos of the source file of item e returns
SourceRead(e, pos, n) == IF pos >= e.cur THEN 0 ELSE Min(n, e.cur - pos)

(***************************************************************************)
(* The static chunk-list engine (mfu_flist_archive_create_chunk)            *)
(***************************************************************************)

\* the rank that holds item g (1-based) of a list spread over the ranks by cnts
OwnerIn(cnts, g) ==
    CHOOSE r \in DOMAIN cnts : ScanBefore(cnts, r) < g /\ g <= ScanBefore(cnts, r) + cnts[r]

OwnerOf(g) == OwnerIn(counts, g)

\* the name of item g of a list: in the sorted list of create the position
NameIn(list, g) == IF "name" \in DOMAIN list[g] THEN list[g].name ELSE g

\* the chunks of item g: one per chunk_size bytes plus the remainder
ChunksOfItem(list, cnts, g, chunk_size) ==
    LET size == list[g].size
        n    == (size \div chunk_size) + (IF size % chunk_size > 0 THEN 1 ELSE 0)
    IN  [k \in 1..n |->
            [ent |-> NameIn(list, g), rank_of_owner |-> OwnerIn(cnts, g),
             index_of_owner |-> g - ScanBefore(cnts, OwnerIn(cnts, g)) - 1,
             offset |-> (k - 1) * chunk_size,
             length |-> Min(chunk_size, size - (k - 1) * chunk_size),
             file_size |-> size]]

\* the chunks of all regular files of the list in global order
RECURSIVE AllChunks(_, _, _, _)
AllChunks(list, cnts, g, chunk_size) ==
    IF g > Len(list) THEN <<>>
    ELSE (IF list[g].type = "FILE" THEN ChunksOfItem(list, cnts, g, chunk_size) ELSE <<>>)
         \o AllChunks(list, cnts, g + 1, chunk_size)

\* mfu_file_chunk_list_alloc: the chunks rank r gets, dealt out by chunk index
mfu_file_chunk_list_alloc(list, cnts, r, chunk_size) ==
    LET all  == AllChunks(list, cnts, 1, chunk_size)
        n    == Cardinality(DOMAIN cnts)
        mine == SelectSeq([k \in 1..Len(all) |-> k], LAMBDA k : (k - 1) % n = r)
    IN  [j \in 1..Len(mine) |-> all[mine[j]]]

\* the gathers completing on a rank before the other ranks have entered them
GatherSyncEarly ==
    /\ \E r \in Ranks : pc[r] = "gather" /\ pc' = [pc EXCEPT ![r] = "copy"]
    /\ LET rank_counts == [r \in Ranks |-> counts[r]]
           rank_disps  == [r \in Ranks |-> GlobalStart(r)]
           total_items == Len(flist)
       IN  gathered' = [rank_disps |-> rank_disps,
                        all_offsets |-> GatherV(rank_counts, rank_disps,
                                          [r \in Ranks |-> lay[r].data_offsets], total_items)]
    /\ data_chunks' = [r \in Ranks |->
                          IF pc[r] = "gather"
                          THEN mfu_file_chunk_list_alloc(flist, counts, r, ChunkSize)
                          ELSE data_chunks[r]]
    /\ UNCHANGED << fixed, xvars, src_cache, DTAR_err, lay,
                    archive_size, index_file, archive_len, archive_old, writes, nwrites,
                    queue, rc, failed >>

\* the two MPI_Allgather, the MPI_Allgatherv of data_offsets and the chunking
GatherSync ==
    /\ \A r \in Ranks : pc[r] = "gather"
    /\ LET rank_counts == [r \in Ranks |-> counts[r]]
           rank_disps  == [r \in Ranks |-> GlobalStart(r)]
           total_items == Len(flist)
       IN  gathered' = [rank_disps |-> rank_disps,
                        all_offsets |-> GatherV(rank_counts, rank_disps,
                                          [r \in Ranks |-> lay[r].data_offsets], total_items)]
    /\ data_chunks' = [r \in Ranks |-> mfu_file_chunk_list_alloc(flist, counts, r, ChunkSize)]
    /\ pc' = [r \in Ranks |-> "copy"]
    /\ UNCHANGED << fixed, xvars, src_cache, DTAR_err, lay,
                    archive_size, index_file, archive_len, archive_old, writes, nwrites,
                    queue, rc, failed >>

\* the inner loop that copies chunk p with pread and pwrite; hang is set when
\* the source yields no more bytes before length bytes were copied; short
\* tells that the next pwrite transfers a short count
RECURSIVE CopyLoop(_, _, _, _, _)
CopyLoop(p, data_offset, bytes_copied, acc, short) ==
    IF bytes_copied >= p.length THEN [ws |-> acc, hang |-> FALSE]
    ELSE LET remainder     == p.length - bytes_copied
             bytes_to_read == Min(BufSize, remainder)
             pos_read      == p.offset + bytes_copied
             nread         == SourceRead(flist[p.ent], pos_read, bytes_to_read)
             pos_write     == data_offset + pos_read
             nwrite        == mfu_pwrite(nread, short)
             w             == Wr("data", pos_write, nread, p.ent, pos_read)
         IN  IF nread = 0 THEN [ws |-> acc, hang |-> TRUE]
             ELSE CopyLoop(p, data_offset, bytes_copied + nwrite,
                           Append(acc, IF short THEN Cut(w) ELSE w), FALSE)

\* one iteration of the loop over the chunk list of rank r
CopyChunk(r) ==
    /\ pc[r] = "copy"
    /\ data_chunks[r] # <<>>
    /\ LET p           == Head(data_chunks[r])
           global_idx  == gathered.rank_disps[p.rank_of_owner] + p.index_of_owner
           data_offset == gathered.all_offsets[global_idx + 1]
           step        == IF Fails(r, "srcopen") THEN "srcopen"
                          ELSE IF Fails(r, "read") THEN "read"
                          ELSE IF Fails(r, "write") THEN "write" ELSE "none"
           res         == IF step = "none"
                          THEN CopyLoop(p, data_offset, 0, <<>>, Fails(r, "wshort"))
                          ELSE [ws |-> <<>>, hang |-> FALSE]
       IN  /\ writes' = writes \cup Stamp(r, nwrites[r], res.ws)
           /\ nwrites' = [nwrites EXCEPT ![r] = @ + Len(res.ws)]
           /\ archive_len' = MaxEnd(res.ws, archive_len)
           /\ DTAR_err' = [DTAR_err EXCEPT ![r] = IF step = "none" THEN @ ELSE 1]
           /\ failed' = IF step = "none" THEN failed ELSE failed \cup { << r, step >> }
           /\ IF res.hang
              THEN /\ pc' = [pc EXCEPT ![r] = "hung"]
                   /\ UNCHANGED data_chunks
              ELSE /\ data_chunks' = [data_chunks EXCEPT ![r] =
                                         IF step = "srcopen" THEN <<>> ELSE Tail(@)]
                   /\ UNCHANGED pc
    /\ UNCHANGED << fixed, xvars, src_cache, lay,
                    archive_size, index_file, archive_old, gathered, queue, rc >>

\* the chunk list is exhausted: mfu_progress_complete, then on to the trailer
CopyDone(r) ==
    /\ pc[r] = "copy"
    /\ data_chunks[r] = <<>>
    /\ pc' = [pc EXCEPT ![r] = IF r = 0 THEN "trailer" ELSE "close"]
    /\ UNCHANGED << fixed, xvars, src_cache, DTAR_err, lay,
                    archive_size, index_file, archive_len, archive_old, writes, nwrites,
                    gathered, data_chunks, queue, rc, failed >>

(***************************************************************************)
(* The dynamic engine (mfu_flist_archive_create_libcircle)                  *)
(***************************************************************************)

\* CIRCLE_init: every rank joins the work queue
CircleInit ==
    /\ \A r \in Ranks : pc[r] = "circle_init"
    /\ src_cache' = [r \in Ranks |-> [src_cache[r] EXCEPT !.name = NULL]]
    /\ pc' = [r \in Ranks |-> "enqueue"]
    /\ UNCHANGED << fixed, xvars, DTAR_err, lay,
                    archive_size, index_file, archive_len, archive_old, writes, nwrites,
                    gathered, data_chunks, queue, rc, failed >>

\* DTAR_enqueue_copy without the work item for a file that has no full chunk
EnqueueItemFullOnly(r, idx, chunk_size) ==
    LET e          == LocalList(r)[idx]
        size       == e.size
        doffset    == lay[r].offsets[idx] + lay[r].header_sizes[idx]
        num_chunks == size \div chunk_size
        op(k)      == [ent |-> GlobalStart(r) + idx, file_size |-> size,
                       chunk_index |-> k, offset |-> doffset]
    IN  IF e.type # "FILE" THEN {}
        ELSE { op(k) : k \in 0..(num_chunks - 1) }
             \cup (IF num_chunks * chunk_size < size THEN { op(num_chunks) } ELSE {})

\* the work items DTAR_enqueue_copy inserts for local item idx of rank r
EnqueueItem(r, idx, chunk_size) ==
    LET e          == LocalList(r)[idx]
        size       == e.size
        doffset    == lay[r].offsets[idx] + lay[r].header_sizes[idx]
        num_chunks == size \div chunk_size
        op(k)      == [ent |-> GlobalStart(r) + idx, file_size |-> size,
                       chunk_index |-> k, offset |-> doffset]
    IN  IF e.type # "FILE" THEN {}
        ELSE { op(k) : k \in 0..(num_chunks - 1) }
             \cup (IF num_chunks * chunk_size < size \/ num_chunks = 0
                   THEN { op(num_chunks) } ELSE {})

DTAR_enqueue_copy(r) == UNION { EnqueueItem(r, idx, ChunkSize) : idx \in 1..counts[r] }

Enqueue(r) ==
    /\ pc[r] = "enqueue"
    /\ queue' = queue \cup DTAR_enqueue_copy(r)
    /\ pc' = [pc EXCEPT ![r] = "process"]
    /\ UNCHANGED << fixed, xvars, src_cache, DTAR_err, lay,
                    archive_size, index_file, archive_len, archive_old, writes, nwrites,
                    gathered, data_chunks, rc, failed >>

\* the read/write loop of DTAR_perform_copy; the source and the archive are
\* read and written at their current positions
RECURSIVE PerformLoop(_, _, _, _, _, _)
PerformLoop(op, chunk_size, in_offset, out_offset, total_bytes_written, acc) ==
    IF total_bytes_written >= chunk_size THEN acc
    ELSE LET remainder   == chunk_size - total_bytes_written
             num_to_read == Min(BufSize, remainder)
             nread       == SourceRead(flist[op.ent], in_offset + total_bytes_written,
                                       num_to_read)
         IN  IF nread = 0 THEN acc
             ELSE PerformLoop(op, chunk_size, in_offset, out_offset,
                     total_bytes_written + nread,
                     Append(acc, Wr("data", out_offset + total_bytes_written, nread,
                                    op.ent, in_offset + total_bytes_written)))

\* (uint64_t) n - 1
DecU64(n) == IF n = 0 THEN UINT64_MAX ELSE n - 1

\* DTAR_perform_copy for work item op on a rank whose error flag is err:
\* the writes it makes and the error flag afterwards
DTAR_perform_copy(op, err, chunk_size) ==
    LET in_offset     == chunk_size * op.chunk_index
        out_offset    == op.offset + in_offset
        data          == IF err = 0
                         THEN PerformLoop(op, chunk_size, in_offset, out_offset, 0, <<>>)
                         ELSE <<>>
        total_bytes_written == SumSeq([i \in 1..Len(data) |-> data[i].len])
        num_chunks    == op.file_size \div chunk_size
        rem           == op.file_size - chunk_size * num_chunks
        last_chunk    == IF rem # 0 THEN num_chunks ELSE DecU64(num_chunks)
        last_expected == IF op.chunk_index = last_chunk THEN op.file_size
                         ELSE in_offset + chunk_size
        last_written  == in_offset + total_bytes_written
        padding       == BlockSize - (op.file_size % BlockSize)
        pad           == IF op.chunk_index = last_chunk /\ padding > 0 /\ padding # BlockSize
                         THEN << Wr("pad", out_offset + total_bytes_written, padding,
                                    op.ent, 0) >>
                         ELSE <<>>
    IN  [ws  |-> data \o pad,
         err |-> IF last_written < last_expected THEN 1 ELSE err]

\* a copy that starts every work item with the flag clear
PerformCopyFresh(r, op) ==
    LET step == IF Fails(r, "srcopen") THEN "srcopen"
                ELSE IF Fails(r, "read") THEN "read" ELSE "none"
        res  == DTAR_perform_copy(op, IF step = "none" THEN 0 ELSE 1, ChunkSize)
        lost == Fails(r, "write") /\ res.ws # <<>>
    IN  [ws     |-> IF lost THEN <<>> ELSE res.ws,
         err    |-> IF lost THEN 1 ELSE res.err,
         failed |-> (IF step = "none" THEN {} ELSE { << r, step >> })
                    \cup (IF lost THEN { << r, "write" >> } ELSE {})]

\* DTAR_perform_copy on rank r with the failing steps of the run: a source that
\* cannot be opened or read sets the flag before any byte is copied, a failing
\* write to the archive loses the data and the padding
PerformCopy(r, op) ==
    LET step == IF Fails(r, "srcopen") THEN "srcopen"
                ELSE IF Fails(r, "read") THEN "read" ELSE "none"
        res  == DTAR_perform_copy(op, IF step = "none" THEN DTAR_err[r] ELSE 1, ChunkSize)
        lost == Fails(r, "write") /\ res.ws # <<>>
    IN  [ws     |-> IF lost THEN <<>> ELSE res.ws,
         err    |-> IF lost THEN 1 ELSE res.err,
         failed |-> (IF step = "none" THEN {} ELSE { << r, step >> })
                    \cup (IF lost THEN { << r, "write" >> } ELSE {})]

\* a rank that puts a work item back into the queue when processing it failed
ProcessRetry(r) ==
    /\ pc[r] = "process"
    /\ \E op \in queue :
        LET res == PerformCopy(r, op)
        IN  /\ queue' = IF res.err = 1 THEN queue ELSE queue \ {op}
            /\ writes' = writes \cup Stamp(r, nwrites[r], res.ws)
            /\ nwrites' = [nwrites EXCEPT ![r] = @ + Len(res.ws)]
            /\ archive_len' = MaxEnd(res.ws, archive_len)
            /\ DTAR_err' = [DTAR_err EXCEPT ![r] = res.err]
            /\ failed' = failed \cup res.failed
            /\ src_cache' = [src_cache EXCEPT ![r] =
                                mfu_archive_open_file(op.ent, 1, @, ~Fails(r, "srcopen"))]
    /\ UNCHANGED << fixed, xvars, pc, lay,
                    archive_size, index_file, archive_old, gathered, data_chunks, rc >>

\* a rank dequeues one work item, its own or a stolen one, and processes it
Process(r) ==
    /\ pc[r] = "process"
    /\ \E op \in queue :
        LET res == PerformCopy(r, op)
        IN  /\ queue' = queue \ {op}
            /\ writes' = writes \cup Stamp(r, nwrites[r], res.ws)
            /\ nwrites' = [nwrites EXCEPT ![r] = @ + Len(res.ws)]
            /\ archive_len' = MaxEnd(res.ws, archive_len)
            /\ DTAR_err' = [DTAR_err EXCEPT ![r] = res.err]
            /\ failed' = failed \cup res.failed
            /\ src_cache' = [src_cache EXCEPT ![r] =
                                mfu_archive_open_file(op.ent, 1, @, ~Fails(r, "srcopen"))]
    /\ UNCHANGED << fixed, xvars, pc, lay,
                    archive_size, index_file, archive_old, gathered, data_chunks, rc >>

\* CIRCLE_begin returns on every rank once all ranks are idle and no work is left
CircleDone ==
    /\ \A r \in Ranks : pc[r] = "process"
    /\ queue = {}
    /\ src_cache' = [r \in Ranks |-> mfu_archive_close_file(src_cache[r])]
    /\ pc' = [r \in Ranks |-> IF r = 0 THEN "trailer" ELSE "close"]
    /\ UNCHANGED << fixed, xvars, DTAR_err, lay,
                    archive_size, index_file, archive_len, archive_old, writes, nwrites,
                    gathered, data_chunks, queue, rc, failed >>

(***************************************************************************)
(* The end of create, common to both engines                                *)
(***************************************************************************)

\* the trailer written one block too far
TrailerWritesLate == << Wr("trailer", archive_size + BlockSize, TrailerSize, 0, 0) >>

\* rank 0 writes two blocks of zeros at archive_size
TrailerWrites == << Wr("trailer", archive_size, TrailerSize, 0, 0) >>

Trailer ==
    /\ pc[0] = "trailer"
    /\ LET ws == IF Fails(0, "trailer") THEN <<>> ELSE TrailerWrites
       IN  /\ writes' = writes \cup Stamp(0, nwrites[0], ws)
           /\ nwrites' = [nwrites EXCEPT ![0] = @ + Len(ws)]
           /\ archive_len' = MaxEnd(ws, archive_len)
    /\ DTAR_err' = [DTAR_err EXCEPT ![0] = IF Fails(0, "trailer") THEN 1 ELSE @]
    /\ failed' = Hit(0, "trailer")
    /\ pc' = [pc EXCEPT ![0] = "close"]
    /\ UNCHANGED << fixed, xvars, src_cache, lay,
                    archive_size, index_file, archive_old, gathered, data_chunks,
                    queue, rc >>

\* mfu_close of the archive
Close(r) ==
    /\ pc[r] = "close"
    /\ DTAR_err' = [DTAR_err EXCEPT ![r] = IF Fails(r, "close") THEN 1 ELSE @]
    /\ failed' = Hit(r, "close")
    /\ pc' = [pc EXCEPT ![r] = "alltrue"]
    /\ UNCHANGED << fixed, xvars, src_cache, lay,
                    archive_size, index_file, archive_len, archive_old, writes, nwrites,
                    gathered, data_chunks, queue, rc >>

\* mfu_alltrue(DTAR_err == 0) and the final barrier
AllTrue ==
    /\ \A r \in Ranks : pc[r] = "alltrue"
    /\ LET write_success == \A r \in Ranks : DTAR_err[r] = 0
       IN  rc' = [r \in Ranks |-> IF write_success THEN MFU_SUCCESS ELSE MFU_FAILURE]
    /\ pc' = [r \in Ranks |-> "done"]
    /\ UNCHANGED << fixed, xvars, src_cache, DTAR_err, lay,
                    archive_size, index_file, archive_len, archive_old, writes, nwrites,
                    gathered, data_chunks, queue, failed >>

CreateNext ==
    \/ \E r \in Ranks : Layout(r)
    \/ LayoutSync
    \/ WriteIndex
    \/ Truncate
    \/ BarrierHeaders
    \/ \E r \in Ranks : WriteHeaders(r)
    \/ GatherSync
    \/ \E r \in Ranks : CopyChunk(r)
    \/ \E r \in Ranks : CopyDone(r)
    \/ CircleInit
    \/ \E r \in Ranks : Enqueue(r)
    \/ \E r \in Ranks : Process(r)
    \/ CircleDone
    \/ Trailer
    \/ \E r \in Ranks : Close(r)
    \/ AllTrue

Init ==
    /\ CreateInit(ListsOver(CreateKinds, MaxEntries), {0, 1}, BOOLEAN, {0, 4096})
    /\ ExtractInit({1})
    /\ Nominal

Next == CreateNext

Spec == Init /\ [][Next]_vars

(***************************************************************************)
(* Extract: reading the index and dividing the entries among the ranks      *)
(***************************************************************************)

\* no create is running
CreateOver == \A r \in Ranks : pc[r] \in {"done", "aborted"}

\* the offsets an index file holds
IndexOffsets(bytes) ==
    [i \in 1..(Len(bytes) \div OffsetBytes) |->
        mfu_unpack_uint64(SubSeq(bytes, OffsetBytes * (i - 1) + 1, OffsetBytes * i))]

\* read_entry_index: rank 0 stats and reads the index file, count, have_index
\* and the unpacked offsets are broadcast
read_entry_index(file) ==
    LET have_index == IF file = Absent THEN 0 ELSE 1
        count      == IF have_index = 1 THEN Len(file) \div OffsetBytes ELSE 0
        bufsize    == count * OffsetBytes
    IN  IF have_index = 0
        THEN [rc |-> MFU_FAILURE, count |-> 0, offsets |-> <<>>]
        ELSE [rc |-> MFU_SUCCESS, count |-> count,
              offsets |-> IndexOffsets(SubSeq(file, 1, bufsize))]

\* the index file is removed between create and extract
DropIndex ==
    /\ CreateOver
    /\ \A r \in XRanks : xpc[r] = "idle"
    /\ index_file # Absent
    /\ index_file' = Absent
    /\ UNCHANGED << fixed, xvars, src_cache, pc, DTAR_err, lay, archive_size, archive_len, archive_old,
                    writes, nwrites, gathered, data_chunks, queue, rc, failed >>

\* extract starts with read_entry_index on every rank.  have_index is an int
\* that is broadcast as one MPI_UINT64_T: on every rank but the root the four
\* bytes behind it are overwritten, which the ranks in harmed do not survive.
ReadIndex ==
    /\ CreateOver
    /\ \A r \in XRanks : xpc[r] = "idle"
    /\ \E harmed \in SUBSET (XRanks \ {0}) :
        LET res == read_entry_index(index_file)
        IN  /\ ext' = [r \in XRanks |->
                         IF r \in harmed THEN ext[r]
                         ELSE [ext[r] EXCEPT !.ret = res.rc, !.entries = res.count,
                                             !.offsets = res.offsets,
                                             !.have_index = (res.rc = MFU_SUCCESS)]]
            /\ xpc' = [r \in XRanks |->
                         IF r \in harmed THEN "corrupt"
                         ELSE IF res.rc = MFU_SUCCESS THEN "partition" ELSE "scan_index"]
    /\ UNCHANGED << fixed, cvars, disk >>

\* step what of extract fails on rank r
XFails(r, what) == << r, what >> \in faults

\* the item whose header starts at position offset of the archive, 0 if none
HeaderAt(offset) ==
    IF /\ offset >= 0 /\ offset < archive_len
       /\ \E g \in 1..Len(flist) : ArchiveBytes(offset) = { << "hdr", g, 0 >> }
    THEN CHOOSE g \in 1..Len(flist) : ArchiveBytes(offset) = { << "hdr", g, 0 >> }
    ELSE 0

\* What a sequential reader finds in the archive from position pos on: the
\* positions of the headers up to the end-of-archive mark, and whether it got
\* that far without meeting bytes that are neither a header nor the mark.
RECURSIVE ScanArchive(_, _)
ScanArchive(pos, acc) ==
    IF pos < 0 \/ pos >= archive_len THEN [offsets |-> acc, ok |-> TRUE]
    ELSE IF HeaderAt(pos) # 0
    THEN ScanArchive(pos + EntrySizeOf(flist[HeaderAt(pos)]), Append(acc, pos))
    ELSE [offsets |-> acc, ok |-> ArchiveBytes(pos) = { << "zero", 0, 0 >> }]

\* index_entries: there is no index, so rank 0 scans the archive for the
\* positions of its headers and broadcasts the outcome, the count and the offsets
IndexEntries ==
    /\ \A r \in XRanks : xpc[r] = "scan_index"
    /\ LET scan == ScanArchive(0, <<>>)
           step == IF XFails(0, "xopen") THEN "xopen"
                   ELSE IF XFails(0, "xscan") THEN "xscan"
                   ELSE IF XFails(0, "xheader") /\ scan.offsets # <<>> THEN "xheader"
                   ELSE "none"
           good == step = "none" /\ scan.ok
       IN  ext' = [r \in XRanks |->
                     [ext[r] EXCEPT
                         !.have_index = FALSE,
                         !.ret = IF good THEN MFU_SUCCESS ELSE MFU_FAILURE,
                         !.have_offsets = good,
                         !.entries = IF good THEN Len(scan.offsets) ELSE 0,
                         !.offsets = IF good THEN scan.offsets ELSE <<>>,
                         !.hit = IF r = 0 /\ ~good THEN @ \cup {"xscan"} ELSE @]]
    /\ xpc' = [r \in XRanks |-> "partition"]
    /\ UNCHANGED << fixed, cvars, disk >>

\* the division with every rank starting at rank times its own count
EntryRangeNaive(entries, nranks, mfu_rank) ==
    LET entries_per_rank  == entries \div nranks
        entries_remainder == entries - entries_per_rank * nranks
        entry_count       == entries_per_rank + (IF mfu_rank < entries_remainder THEN 1 ELSE 0)
    IN  [entry_count |-> entry_count, entry_start |-> mfu_rank * entry_count]

\* the entries a rank is to extract: entry_count entries from entry_start on
EntryRange(entries, nranks, mfu_rank) ==
    LET entries_per_rank  == entries \div nranks
        entries_remainder == entries - entries_per_rank * nranks
    IN  IF mfu_rank < entries_remainder
        THEN [entry_count |-> entries_per_rank + 1,
              entry_start |-> mfu_rank * (entries_per_rank + 1)]
        ELSE [entry_count |-> entries_per_rank,
              entry_start |-> entries_remainder * (entries_per_rank + 1)
                              + (mfu_rank - entries_remainder) * entries_per_rank]

Partition(r) ==
    /\ xpc[r] = "partition"
    /\ LET range == EntryRange(ext[r].entries, xranks, r)
       IN  ext' = [ext EXCEPT ![r].entry_start = range.entry_start,
                              ![r].entry_count = range.entry_count]
    /\ xpc' = [xpc EXCEPT ![r] = "flist"]
    /\ UNCHANGED << fixed, cvars, disk >>

\* the loop of extract_flist_offsets: the header of each entry of the rank is
\* read at its offset, the item inserted in the list and the start of its data
\* noted; the loop ends at the first header that cannot be read
RECURSIVE FlistLoop(_, _, _)
FlistLoop(x, count, acc) ==
    IF count >= x.entry_count THEN acc
    ELSE LET idx    == x.entry_start + count
             offset == x.offsets[idx + 1]
             g      == HeaderAt(offset)
         IN  IF g = 0 THEN [acc EXCEPT !.rc = MFU_FAILURE]
             ELSE LET header_size == flist[g].hdr
                  IN  FlistLoop(x, count + 1,
                         [acc EXCEPT
                             !.items = Append(@, [name |-> g, type |-> flist[g].type,
                                                  size |-> flist[g].size]),
                             !.doffsets = Append(@, offset + header_size)])

\* every rank has left extract with MFU_FAILURE
ReturnFailure(x) == [x EXCEPT !.rc = MFU_FAILURE, !.ret = MFU_FAILURE,
                              !.main_rc = MFU_FAILURE, !.returned = MFU_FAILURE]

\* the ranks that cannot open the archive
CannotOpen == { r \in XRanks : XFails(r, "xopen") }

\* the start of extract_flist_offsets: every rank opens the archive, and all
\* return failure, from the function and from extract, if one of them could not
XFlistOpen ==
    /\ \A r \in XRanks : xpc[r] = "flist"
    /\ \A r \in XRanks : ext[r].have_offsets
    /\ IF CannotOpen # {}
       THEN /\ ext' = [r \in XRanks |->
                         ReturnFailure([ext[r] EXCEPT
                             !.hit = IF r \in CannotOpen THEN @ \cup {"xopen"} ELSE @])]
            /\ xpc' = [r \in XRanks |-> "done"]
       ELSE /\ xpc' = [r \in XRanks |-> "flist_loop"]
            /\ ext' = [r \in XRanks |-> [ext[r] EXCEPT !.fds = @ + 1]]
    /\ UNCHANGED << fixed, cvars, disk >>

\* the loop of extract_flist_offsets on a rank
XFlist(r) ==
    /\ xpc[r] = "flist_loop"
    /\ LET bad == XFails(r, "xheader") /\ ext[r].entry_count > 0
           res == IF bad THEN [items |-> <<>>, doffsets |-> <<>>, rc |-> MFU_FAILURE]
                  ELSE FlistLoop(ext[r], 0,
                                 [items |-> <<>>, doffsets |-> <<>>, rc |-> MFU_SUCCESS])
       IN  ext' = [ext EXCEPT ![r].items = res.items, ![r].doffsets = res.doffsets,
                              ![r].rc = res.rc,
                              ![r].hit = IF bad THEN @ \cup {"xheader"} ELSE @]
    /\ xpc' = [xpc EXCEPT ![r] = "flist_sync"]
    /\ UNCHANGED << fixed, cvars, disk >>

\* a scan that deals the entries to the ranks from the last rank down
ScanItemsReversed(offs, r) ==
    LET mine == SelectSeq([i \in 1..Len(offs) |-> i],
                          LAMBDA i : (i - 1) % xranks = xranks - 1 - r)
    IN  [k \in 1..Len(mine) |->
            LET g == HeaderAt(offs[mine[k]])
            IN  [name |-> g, type |-> flist[g].type, size |-> flist[g].size]]

\* the entries a scan from the start of the archive deals to rank r: those
\* whose position in the archive modulo the number of ranks is r
ScanItems(offs, r) ==
    LET mine == SelectSeq([i \in 1..Len(offs) |-> i], LAMBDA i : (i - 1) % xranks = r)
    IN  [k \in 1..Len(mine) |->
            LET g == HeaderAt(offs[mine[k]])
            IN  [name |-> g, type |-> flist[g].type, size |-> flist[g].size]]

\* extract_flist on a rank that has no offsets: the rank reads every header
\* from the start of the archive and keeps its share; when the archive cannot
\* be opened or a header cannot be read the rank calls exit
XFlistScan(r) ==
    /\ xpc[r] = "flist"
    /\ ~ext[r].have_offsets
    /\ LET scan == ScanArchive(0, <<>>)
           step == IF XFails(r, "xopen") THEN "xopen"
                   ELSE IF XFails(r, "xheader") /\ scan.offsets # <<>> THEN "xheader"
                   ELSE IF ~scan.ok THEN "format"
                   ELSE "none"
       IN  IF step # "none"
           THEN /\ ext' = [ext EXCEPT ![r].hit = @ \cup {step}]
                /\ xpc' = [xpc EXCEPT ![r] = "exited"]
           ELSE /\ ext' = [ext EXCEPT ![r].items = ScanItems(scan.offsets, r)]
                /\ xpc' = [xpc EXCEPT ![r] = "flist_sync"]
    /\ UNCHANGED << fixed, cvars, disk >>

\* the list extract has built, in rank order, and how it is spread over the ranks
RECURSIVE XListUpTo(_)
XListUpTo(r) == IF r < 0 THEN <<>> ELSE XListUpTo(r - 1) \o ext[r].items

XList == XListUpTo(xranks - 1)

XCounts == [r \in XRanks |-> Len(ext[r].items)]

\* the end of extract_flist_offsets and of extract_flist: the list is
\* summarized, with offsets the data offsets are gathered to all ranks, and
\* extract returns failure on all ranks if any rank failed
XFlistSync ==
    /\ \A r \in XRanks : xpc[r] = "flist_sync"
    /\ LET rank_counts  == XCounts
           rank_disps   == [r \in XRanks |-> ScanBefore(XCounts, r)]
           data_offsets == [r \in XRanks |->
                              IF ext[r].have_offsets
                              THEN GatherV(rank_counts, rank_disps,
                                           [q \in XRanks |-> ext[q].doffsets], ext[r].entries)
                              ELSE ext[r].data_offsets]
           ok           == \A r \in XRanks : ext[r].rc = MFU_SUCCESS
       IN  /\ ext' = [r \in XRanks |->
                        LET x == [ext[r] EXCEPT
                                     !.data_offsets = data_offsets[r],
                                     !.fds = IF ext[r].have_offsets THEN @ - 1 ELSE @]
                        IN  IF ok THEN [x EXCEPT !.ret = MFU_SUCCESS] ELSE ReturnFailure(x)]
           /\ xpc' = [r \in XRanks |-> IF ok THEN "mkdir" ELSE "done"]
    /\ UNCHANGED << fixed, cvars, disk >>

\* the items of the given types in the list of rank r
LocalItems(r, types) ==
    { ext[r].items[i].name : i \in { j \in 1..Len(ext[r].items) : ext[r].items[j].type \in types } }

\* the items gs are created empty
MakeItems(gs) ==
    [g \in DOMAIN disk |->
        IF g \in gs THEN [type |-> flist[g].type, segs |-> {}, meta |-> FALSE] ELSE disk[g]]

\* mfu_flist_mkdir on rank r: the directories of its list are created
XMkdir(r) ==
    /\ xpc[r] = "mkdir"
    /\ disk' = MakeItems(LocalItems(r, {"DIR"}))
    /\ xpc' = [xpc EXCEPT ![r] = "mkdir_done"]
    /\ UNCHANGED << fixed, cvars, ext >>

\* the way extract takes after the directories: with offsets libarchive or the
\* chunk list, without offsets a scan of the archive by every rank
AfterMkdir(x) ==
    IF ~x.have_offsets THEN "scan_extract"
    ELSE IF extract_libarchive = 1 THEN "la_open" ELSE "mknod_barrier"

\* a rank leaving mfu_flist_mkdir while other ranks still create directories
XMkdirEndEarly ==
    /\ \E r \in XRanks : /\ xpc[r] = "mkdir_done"
                          /\ xpc' = [xpc EXCEPT ![r] = AfterMkdir(ext[r])]
    /\ UNCHANGED << fixed, cvars, ext, disk >>

\* mfu_flist_mkdir returns once the directories of all ranks exist
XMkdirEnd ==
    /\ \A r \in XRanks : xpc[r] = "mkdir_done"
    /\ xpc' = [r \in XRanks |-> AfterMkdir(ext[r])]
    /\ UNCHANGED << fixed, cvars, ext, disk >>

\* the MPI_Barrier before the files are created
XBarrierFiles ==
    /\ \A r \in XRanks : xpc[r] = "mknod_barrier"
    /\ xpc' = [r \in XRanks |-> "mknod"]
    /\ UNCHANGED << fixed, cvars, ext, disk >>

\* mfu_flist_mknod on rank r: the regular files of its list are created empty
XMknod(r) ==
    /\ xpc[r] = "mknod"
    /\ disk' = MakeItems(LocalItems(r, {"FILE"}))
    /\ xpc' = [xpc EXCEPT ![r] = "chunks"]
    /\ UNCHANGED << fixed, cvars, ext >>

\* the start of extract_files_offsets_chunk: every rank opens the archive and
\* the regular files are cut in chunks.  If a rank cannot open the archive all
\* ranks return failure from it, and from extract_symlinks for the same reason.
XChunkSync ==
    /\ \A r \in XRanks : xpc[r] = "chunks"
    /\ IF CannotOpen # {}
       THEN /\ ext' = [r \in XRanks |->
                         [ext[r] EXCEPT !.ret = MFU_FAILURE, !.rc = MFU_FAILURE,
                             !.hit = IF r \in CannotOpen THEN @ \cup {"xopen"} ELSE @]]
            /\ xpc' = [r \in XRanks |-> "symlink_sync"]
       ELSE /\ ext' = [r \in XRanks |->
                         [ext[r] EXCEPT !.fds = @ + 1, !.chunks =
                             mfu_file_chunk_list_alloc(XList, XCounts, r, ChunkSize)]]
            /\ xpc' = [r \in XRanks |-> "xcopy"]
    /\ UNCHANGED << fixed, cvars, disk >>

\* bytes a read of n bytes at pos of the archive returns
ArchiveRead(pos, n) == IF pos >= archive_len THEN 0 ELSE Min(n, archive_len - pos)

\* the inner loop of extract_files_offsets_chunk for chunk p: the pieces written
\* to the destination file, each with the archive position it was read from
RECURSIVE XCopyLoop(_, _, _, _)
XCopyLoop(p, data_offset, bytes_copied, acc) ==
    IF bytes_copied >= p.length THEN acc
    ELSE LET remainder     == p.length - bytes_copied
             bytes_to_read == Min(BufSize, remainder)
             pos_read      == data_offset + p.offset + bytes_copied
             nread         == ArchiveRead(pos_read, bytes_to_read)
             pos_write     == p.offset + bytes_copied
         IN  IF nread = 0 THEN [acc EXCEPT !.rc = MFU_FAILURE]
             ELSE XCopyLoop(p, data_offset, bytes_copied + nread,
                     [acc EXCEPT !.segs = @ \cup {[foff |-> pos_write, len |-> nread,
                                                   apos |-> pos_read]}])

\* one iteration of the loop over the chunks of rank r
XCopyChunk(r) ==
    /\ xpc[r] = "xcopy"
    /\ ext[r].chunks # <<>>
    /\ ext[r].rc = MFU_SUCCESS
    /\ LET p           == Head(ext[r].chunks)
           rank_disps  == [q \in XRanks |-> ScanBefore(XCounts, q)]
           global_idx  == rank_disps[p.rank_of_owner] + p.index_of_owner
           data_offset == ext[r].data_offsets[global_idx + 1]
           res         == XCopyLoop(p, data_offset, 0, [segs |-> {}, rc |-> MFU_SUCCESS])
       IN  /\ disk' = [disk EXCEPT ![p.ent].segs = @ \cup res.segs]
           /\ ext' = [ext EXCEPT ![r].chunks = Tail(@), ![r].rc = res.rc]
    /\ UNCHANGED << fixed, cvars, xpc >>

XCopyDone(r) ==
    /\ xpc[r] = "xcopy"
    /\ ext[r].chunks = <<>> \/ ext[r].rc # MFU_SUCCESS
    /\ xpc' = [xpc EXCEPT ![r] = "xcopy_sync"]
    /\ UNCHANGED << fixed, cvars, ext, disk >>

\* mfu_alltrue at the end of extract_files_offsets_chunk, which returns with
\* the archive still open, and the start of extract_symlinks, which opens it
XCopySync ==
    /\ \A r \in XRanks : xpc[r] = "xcopy_sync"
    /\ LET ok == \A r \in XRanks : ext[r].rc = MFU_SUCCESS
       IN  ext' = [r \in XRanks |->
                     [ext[r] EXCEPT !.ret = IF ok THEN MFU_SUCCESS ELSE MFU_FAILURE,
                                    !.rc = MFU_SUCCESS,
                                    !.fds = @ + 1]]
    /\ xpc' = [r \in XRanks |-> "symlinks"]
    /\ UNCHANGED << fixed, cvars, disk >>

\* the local symlinks whose header extract_symlinks reads back as a symlink
LinksMade(r) ==
    { ext[r].items[idx].name : idx \in
        { i \in 1..Len(ext[r].items) :
            /\ ext[r].items[i].type = "LINK"
            /\ LET global_idx == ScanBefore(XCounts, r) + (i - 1)
                   g == HeaderAt(ext[r].offsets[global_idx + 1])
               IN  g # 0 /\ flist[g].type = "LINK" } }

LinksFailed(r) ==
    \E i \in 1..Len(ext[r].items) :
        /\ ext[r].items[i].type = "LINK"
        /\ ext[r].items[i].name \notin LinksMade(r)

\* the loop of extract_symlinks on rank r
XSymlinks(r) ==
    /\ xpc[r] = "symlinks"
    /\ disk' = [g \in DOMAIN disk |->
                  IF g \in LinksMade(r) THEN [type |-> "LINK", segs |-> {}, meta |-> FALSE]
                  ELSE disk[g]]
    /\ ext' = [ext EXCEPT ![r].rc = IF LinksFailed(r) THEN MFU_FAILURE ELSE MFU_SUCCESS]
    /\ xpc' = [xpc EXCEPT ![r] = "symlink_sync"]
    /\ UNCHANGED << fixed, cvars >>

\* mfu_alltrue at the end of extract_symlinks and the MPI_Barrier before the
\* timestamps and permissions are set
XDataSync ==
    /\ \A r \in XRanks : xpc[r] = "symlink_sync"
    /\ LET ok == \A r \in XRanks : ext[r].rc = MFU_SUCCESS /\ ext[r].ret = MFU_SUCCESS
       IN  ext' = [r \in XRanks |->
                     [ext[r] EXCEPT !.rc = IF ok THEN MFU_SUCCESS ELSE MFU_FAILURE,
                                    !.main_rc = IF ok THEN @ ELSE MFU_FAILURE,
                                    !.fds = IF CannotOpen = {} THEN @ - 1 ELSE @]]
    /\ xpc' = [r \in XRanks |-> "meta"]
    /\ UNCHANGED << fixed, cvars, disk >>

\* the start of extract_files_offsets: every rank opens the archive, and all
\* return failure from it if one of them could not
XLaOpen ==
    /\ \A r \in XRanks : xpc[r] = "la_open"
    /\ IF CannotOpen # {}
       THEN /\ ext' = [r \in XRanks |->
                         [ext[r] EXCEPT !.ret = MFU_FAILURE, !.rc = MFU_FAILURE,
                             !.main_rc = MFU_FAILURE,
                             !.hit = IF r \in CannotOpen THEN @ \cup {"xopen"} ELSE @]]
            /\ xpc' = [r \in XRanks |-> "meta"]
       ELSE /\ xpc' = [r \in XRanks |-> "la_extract"]
            /\ ext' = [r \in XRanks |-> [ext[r] EXCEPT !.fds = @ + 1]]
    /\ UNCHANGED << fixed, cvars, disk >>

\* item g as libarchive extracts it from the entry at position pos of the archive
Extracted(g, pos) ==
    [type |-> flist[g].type,
     segs |-> IF flist[g].type = "FILE" /\ flist[g].size > 0
              THEN {[foff |-> 0, len |-> flist[g].size, apos |-> pos + flist[g].hdr]}
              ELSE {},
     meta |-> FALSE]

\* the target directory after libarchive has extracted the entries at the
\* positions at and closed its write object: closing may set the timestamps
\* and permissions of the items it handled
LaDisk(at, fix) ==
    [g \in DOMAIN disk |->
        IF \E i \in 1..Len(at) : HeaderAt(at[i]) = g
        THEN LET pos == at[CHOOSE i \in 1..Len(at) : HeaderAt(at[i]) = g]
                 new == IF flist[g].type = "DIR" /\ disk[g].type = "DIR"
                        THEN disk[g] ELSE Extracted(g, pos)
             IN  [new EXCEPT !.meta = IF fix THEN TRUE ELSE @]
        ELSE disk[g]]

\* the loop of extract_files_offsets on rank r and the close of its write object
XLaExtract(r) ==
    /\ xpc[r] = "la_extract"
    /\ LET bad == XFails(r, "xheader") /\ ext[r].entry_count > 0
           at  == IF bad THEN <<>>
                  ELSE [i \in 1..ext[r].entry_count |-> ext[r].offsets[ext[r].entry_start + i]]
       IN  /\ \E fix \in BOOLEAN : disk' = LaDisk(at, fix)
           /\ ext' = [ext EXCEPT ![r].rc = IF bad THEN MFU_FAILURE ELSE MFU_SUCCESS,
                                  ![r].hit = IF bad THEN @ \cup {"xheader"} ELSE @]
    /\ xpc' = [xpc EXCEPT ![r] = "la_sync"]
    /\ UNCHANGED << fixed, cvars >>

\* extract_files on rank r: the rank reads the archive from its start and
\* extracts every entry whose position modulo the number of ranks is r
XScanExtract(r) ==
    /\ xpc[r] = "scan_extract"
    /\ LET scan == ScanArchive(0, <<>>)
           step == IF XFails(r, "xopen") THEN "xopen"
                   ELSE IF XFails(r, "xheader") /\ scan.offsets # <<>> THEN "xheader"
                   ELSE IF ~scan.ok THEN "format"
                   ELSE "none"
           at   == IF step # "none" THEN <<>>
                   ELSE SelectSeq(scan.offsets,
                                  LAMBDA o : \E i \in 1..Len(scan.offsets) :
                                                scan.offsets[i] = o /\ (i - 1) % xranks = r)
       IN  /\ \E fix \in BOOLEAN : disk' = LaDisk(at, fix)
           /\ ext' = [ext EXCEPT ![r].rc = IF step # "none" THEN MFU_FAILURE ELSE MFU_SUCCESS,
                                  ![r].hit = IF step # "none" THEN @ \cup {step} ELSE @]
    /\ xpc' = [xpc EXCEPT ![r] = "la_sync"]
    /\ UNCHANGED << fixed, cvars >>

\* the barriers and mfu_alltrue at the end of extract_files_offsets and of
\* extract_files, and the MPI_Barrier before the directories get their
\* timestamps and permissions
XLaSync ==
    /\ \A r \in XRanks : xpc[r] = "la_sync"
    /\ LET ok == \A r \in XRanks : ext[r].rc = MFU_SUCCESS
       IN  ext' = [r \in XRanks |->
                     [ext[r] EXCEPT !.rc = IF ok THEN MFU_SUCCESS ELSE MFU_FAILURE,
                                    !.ret = IF ok THEN MFU_SUCCESS ELSE MFU_FAILURE,
                                    !.main_rc = IF ok THEN @ ELSE MFU_FAILURE]]
    /\ xpc' = [r \in XRanks |-> "meta"]
    /\ UNCHANGED << fixed, cvars, disk >>

\* extract used libarchive to create the items
extracted_with_libarchive(x) == ~x.have_offsets \/ extract_libarchive = 1

\* mfu_flist_metadata_apply on rank r: the timestamps and permissions of the
\* items of its list are set, of its directories alone after libarchive
XMetaApply(r) ==
    /\ xpc[r] = "meta"
    /\ LET gs == IF extracted_with_libarchive(ext[r])
                 THEN LocalItems(r, {"DIR"}) ELSE LocalItems(r, {"FILE", "DIR", "LINK"})
       IN  disk' = [g \in DOMAIN disk |->
                      IF g \in gs /\ disk[g].type # "none"
                      THEN [disk[g] EXCEPT !.meta = TRUE] ELSE disk[g]]
    /\ xpc' = [xpc EXCEPT ![r] = "meta_done"]
    /\ UNCHANGED << fixed, cvars, ext >>

\* the end of extract: the index is written if the offsets came from a scan,
\* and after a barrier the all-reduce gives every rank the same result
XFinish ==
    /\ \A r \in XRanks : xpc[r] = "meta_done"
    /\ \E reported \in BOOLEAN :
        LET wanted == ext[0].have_offsets /\ ~ext[0].have_index
            bytes  == IF wanted
                      THEN write_entry_index(xranks,
                               [r \in XRanks |-> ext[r].entry_count],
                               [r \in XRanks |->
                                   [i \in 1..ext[r].entry_count |->
                                       ext[r].offsets[ext[r].entry_start + i]]],
                               reported)
                      ELSE index_file
            ok     == \A r \in XRanks : ext[r].main_rc = MFU_SUCCESS
        IN  IF bytes = "abort"
            THEN /\ xpc' = [r \in XRanks |-> "aborted"]
                 /\ UNCHANGED << index_file, ext >>
            ELSE /\ xpc' = [r \in XRanks |-> "done"]
                 /\ index_file' = bytes
                 /\ ext' = [r \in XRanks |->
                               [ext[r] EXCEPT !.returned = IF ok THEN MFU_SUCCESS
                                                           ELSE MFU_FAILURE]]
    /\ UNCHANGED << fixed, disk, src_cache, pc, DTAR_err, lay, archive_size, archive_len, archive_old,
                    writes, nwrites, gathered, data_chunks, queue, rc, failed >>

\* extract with the index of create and the chunk list
ExtractNext ==
    \/ ReadIndex
    \/ \E r \in XRanks : Partition(r)
    \/ XFlistOpen
    \/ \E r \in XRanks : XFlist(r)
    \/ XFlistSync
    \/ \E r \in XRanks : XMkdir(r)
    \/ XMkdirEnd
    \/ XBarrierFiles
    \/ \E r \in XRanks : XMknod(r)
    \/ XChunkSync
    \/ \E r \in XRanks : XCopyChunk(r)
    \/ \E r \in XRanks : XCopyDone(r)
    \/ XCopySync
    \/ \E r \in XRanks : XSymlinks(r)
    \/ XDataSync
    \/ \E r \in XRanks : XMetaApply(r)
    \/ XFinish

\* extract by every path
ExtractAllNext ==
    \/ ExtractNext
    \/ DropIndex
    \/ IndexEntries
    \/ \E r \in XRanks : XFlistScan(r)
    \/ XLaOpen
    \/ \E r \in XRanks : XLaExtract(r)
    \/ \E r \in XRanks : XScanExtract(r)
    \/ XLaSync

(***************************************************************************)
(* The index alone: every rank calls write_entry_index with offsets of its  *)
(* own, and the index is read back                                          *)
(***************************************************************************)
IndexValues == {0, 512, 66051}

CallWriteIndex ==
    /\ \A r \in Ranks : pc[r] = "index_only"
    /\ \E reported \in BOOLEAN :
        LET bytes == write_entry_index(ranks, counts, [r \in Ranks |-> lay[r].offsets],
                                       reported)
        IN  IF bytes = "abort"
            THEN /\ pc' = [r \in Ranks |-> "aborted"]
                 /\ UNCHANGED index_file
            ELSE /\ pc' = [r \in Ranks |-> "done"]
                 /\ index_file' = bytes
    /\ UNCHANGED << fixed, xvars, src_cache, DTAR_err, lay, archive_size, archive_len, archive_old,
                    writes, nwrites, gathered, data_chunks, queue, rc, failed >>

InitIndex ==
    /\ ranks \in 1..MaxRanks
    /\ flist = <<>>
    /\ counts \in [Ranks -> 0..MaxIdxCount]
    /\ create_libcircle = 0
    /\ bigEndian \in BOOLEAN
    /\ pc = [r \in Ranks |-> "index_only"]
    /\ DTAR_err = [r \in Ranks |-> 0]
    /\ src_cache = [r \in Ranks |-> NoCache]
    /\ \E offs \in [Ranks -> ListsOver(IndexValues, MaxIdxCount)] :
          /\ \A r \in Ranks : Len(offs[r]) = counts[r]
          /\ lay = [r \in Ranks |-> [EmptyLayout EXCEPT !.offsets = offs[r]]]
    /\ archive_size = 0
    /\ index_file \in {Absent}
    /\ archive_len = 0
    /\ archive_old = FALSE
    /\ writes = {}
    /\ nwrites = [r \in Ranks |-> 0]
    /\ gathered = [rank_disps |-> <<>>, all_offsets |-> <<>>]
    /\ data_chunks = [r \in Ranks |-> <<>>]
    /\ queue = {}
    /\ rc = [r \in Ranks |-> "none"]
    /\ failed = {}
    /\ ExtractInit(1..MaxRanks)
    /\ Nominal

NextIndex ==
    \/ CallWriteIndex
    \/ ReadIndex

SpecIndex == InitIndex /\ [][NextIndex]_vars

(***************************************************************************)
(* The division of the entries alone                                        *)
(***************************************************************************)
InitPart ==
    /\ ranks = 1
    /\ xranks \in 1..MaxPartRanks
    /\ flist = <<>>
    /\ disk = <<>>
    /\ counts = [r \in Ranks |-> 0]
    /\ create_libcircle = 0
    /\ bigEndian = FALSE
    /\ pc = [r \in Ranks |-> "done"]
    /\ DTAR_err = [r \in Ranks |-> 0]
    /\ src_cache = [r \in Ranks |-> NoCache]
    /\ lay = [r \in Ranks |-> EmptyLayout]
    /\ archive_size = 0
    /\ index_file = Absent
    /\ archive_len = 0
    /\ archive_old = FALSE
    /\ writes = {}
    /\ nwrites = [r \in Ranks |-> 0]
    /\ gathered = [rank_disps |-> <<>>, all_offsets |-> <<>>]
    /\ data_chunks = [r \in Ranks |-> <<>>]
    /\ queue = {}
    /\ rc = [r \in Ranks |-> "none"]
    /\ failed = {}
    /\ xpc = [r \in XRanks |-> "partition"]
    /\ Nominal
    /\ \E entries \in 0..MaxPartEntries :
          ext = [r \in XRanks |->
                    [NoExtract EXCEPT !.ret = MFU_SUCCESS, !.entries = entries,
                                      !.offsets = [i \in 1..entries |-> BlockSize * (i - 1)]]]

NextPart == \E r \in XRanks : Partition(r)

SpecPart == InitPart /\ [][NextPart]_vars

(***************************************************************************)
(* Create followed by extract of the archive into an empty directory        *)
(***************************************************************************)
RoundTripKinds == { e \in CreateKinds : e.type \in {"FILE", "DIR", "LINK"} }

InitRoundTrip ==
    /\ CreateInit(ListsOver(RoundTripKinds, MaxEntries), {0, 1}, {FALSE}, {0})
    /\ ExtractInit(1..MaxRanks)
    /\ Nominal

NextRoundTrip ==
    \/ CreateNext
    \/ ExtractNext

SpecRoundTrip == InitRoundTrip /\ [][NextRoundTrip]_vars

(***************************************************************************)
(* The layout alone, over items with more sizes                             *)
(***************************************************************************)
InitLayout ==
    /\ CreateInit(ListsOver(LayoutKinds, MaxEntries), {0}, {FALSE}, {0})
    /\ ExtractInit({1})
    /\ Nominal

NextLayout ==
    \/ \E r \in Ranks : Layout(r)
    \/ LayoutSync

SpecLayout == InitLayout /\ [][NextLayout]_vars

(***************************************************************************)
(* Create in which one I/O step fails                                       *)
(***************************************************************************)
FaultItems == { Item("FILE", 513, 512), Item("DIR", 0, 512) }

\* no step fails, or one step of one rank does
FaultSets ==
    {{}} \cup { { << r, k >> } : r \in Ranks, k \in RankFaults }
         \cup { { << 0, k >> } : k \in RootFaults }
         \cup { { << r, "encode" >>, << r, "header" >> } : r \in Ranks }

InitFaults ==
    /\ CreateInit(ListsOver(FaultItems, MaxEntries), {0, 1}, {FALSE}, {0, 4096})
    /\ ExtractInit({1})
    /\ extract_libarchive = 0
    /\ faults \in FaultSets
    /\ env = NoEnv

NextFaults == CreateNext

SpecFaults == InitFaults /\ [][NextFaults]_vars

(***************************************************************************)
(* Extract by every path: with the index or without it, with libarchive or *)
(* the chunk list, and with a step of extract that fails on one rank        *)
(***************************************************************************)
ExtractItems == { Item("FILE", 513, 512), Item("DIR", 0, 512), Item("LINK", 0, 512) }

XFaultSets ==
    {{}} \cup { { << r, k >> } : r \in 0..(MaxRanks - 1), k \in {"xopen", "xheader"} }
         \cup { { << 0, "xscan" >> } }

InitExtract ==
    /\ CreateInit(ListsOver(ExtractItems, MaxEntries), {0}, {FALSE}, {0})
    /\ ranks = 1
    /\ ExtractInit(1..MaxRanks)
    /\ extract_libarchive \in {0, 1}
    /\ faults \in { f \in XFaultSets : \A x \in f : x[1] \in XRanks }
    /\ env = NoEnv

\* create with the static engine
CreateChunkNext ==
    \/ \E r \in Ranks : Layout(r)
    \/ LayoutSync
    \/ WriteIndex
    \/ Truncate
    \/ BarrierHeaders
    \/ \E r \in Ranks : WriteHeaders(r)
    \/ GatherSync
    \/ \E r \in Ranks : CopyChunk(r)
    \/ \E r \in Ranks : CopyDone(r)
    \/ Trailer
    \/ \E r \in Ranks : Close(r)
    \/ AllTrue

NextExtract ==
    \/ CreateChunkNext
    \/ ExtractAllNext

SpecExtract == InitExtract /\ [][NextExtract]_vars

(***************************************************************************)
(* Extract of one archive twice: with the index create wrote, then, into an *)
(* empty directory again, with the index deleted                            *)
(***************************************************************************)
AgainItems ==
    { Item("FILE", 513, 512), Item("DIR", 0, 512), Item("LINK", 0, 512), Item("OTHER", 0, 0) }

\* what extract has left in the target directory: the type and the content of each item
Left == [g \in DOMAIN disk |-> [type |-> disk[g].type, segs |-> disk[g].segs]]

\* after an extract that had the index, the index file and the extracted
\* items are deleted and extract is run once more
ExtractAgain ==
    /\ \A r \in XRanks : xpc[r] = "done"
    /\ ext[0].have_index
    /\ ~env.again /\ ~env.cut
    /\ env' = [env EXCEPT !.again = TRUE,
                          !.returned = [r \in XRanks |-> ext[r].returned],
                          !.left = Left]
    /\ index_file' = Absent
    /\ xpc' = [r \in XRanks |-> "idle"]
    /\ ext' = [r \in XRanks |-> NoExtract]
    /\ disk' = [g \in DOMAIN disk |-> [type |-> "none", segs |-> {}, meta |-> FALSE]]
    /\ UNCHANGED << flist, ranks, counts, create_libcircle, bigEndian, xranks,
                    extract_libarchive, faults, src_cache, pc, DTAR_err, lay, archive_size,
                    archive_len, archive_old, writes, nwrites, gathered, data_chunks,
                    queue, rc, failed >>

\* the index file loses its last eight bytes between create and extract
CutIndex ==
    /\ CreateOver
    /\ \A r \in XRanks : xpc[r] = "idle"
    /\ ~env.again /\ ~env.cut
    /\ index_file # Absent
    /\ Len(index_file) >= OffsetBytes
    /\ index_file' = SubSeq(index_file, 1, Len(index_file) - OffsetBytes)
    /\ env' = [env EXCEPT !.cut = TRUE]
    /\ UNCHANGED << flist, ranks, counts, create_libcircle, bigEndian, xranks,
                    extract_libarchive, faults, xvars, src_cache, pc, DTAR_err, lay, archive_size,
                    archive_len, archive_old, writes, nwrites, gathered, data_chunks,
                    queue, rc, failed >>

InitAgain ==
    /\ CreateInit(ListsOver(AgainItems, MaxEntries), {0}, {FALSE}, {0})
    /\ ranks = 1
    /\ ExtractInit(1..MaxRanks)
    /\ extract_libarchive \in {0, 1}
    /\ faults = {}
    /\ env = NoEnv

NextAgain ==
    \/ CreateChunkNext
    \/ ExtractNext
    \/ IndexEntries
    \/ XLaOpen
    \/ \E r \in XRanks : XLaExtract(r)
    \/ XLaSync
    \/ ExtractAgain
    \/ CutIndex

SpecAgain == InitAgain /\ [][NextAgain]_vars

(***************************************************************************)
(* Properties                                                               *)
(***************************************************************************)

\* the size rounded up to the next multiple of 512
RoundUp512(s) == ((s + 511) \div 512) * 512

\* the bytes an item takes in the archive
SizeInArchive(e) ==
    CASE e.type = "FILE" -> e.hdr + RoundUp512(e.size)
      [] e.type \in {"DIR", "LINK"} -> e.hdr
      [] OTHER -> 0

\* the sum of the sizes of the items before global item g
RECURSIVE SizeBefore(_)
SizeBefore(g) == IF g <= 1 THEN 0 ELSE SizeBefore(g - 1) + SizeInArchive(flist[g - 1])

LayoutKnown == \A r \in Ranks : pc[r] \notin {"start", "scan"}

\* C3: once the layout is computed, the offset of every item is the sum of the
\* entry sizes of all items before it in the global order (those of lower ranks,
\* then the earlier local ones), its entry size is header plus padded content for
\* a file and the header alone for a directory or symlink, and archive_size is
\* the sum over all items.
C3_LayoutIsPrefixSum ==
    LayoutKnown =>
        /\ \A r \in Ranks : \A idx \in 1..counts[r] :
              /\ lay[r].offsets[idx] = SizeBefore(GlobalStart(r) + idx)
              /\ lay[r].entry_sizes[idx] = SizeInArchive(LocalList(r)[idx])
        /\ archive_size = SizeBefore(Len(flist) + 1)

C3_Witness ==
    /\ LayoutKnown
    /\ ranks = 2 /\ counts[0] = 1 /\ counts[1] = 1
    /\ flist[1].type = "FILE" /\ flist[1].size = 513
    /\ lay[1].offsets[1] = flist[1].hdr + 1024

HeadersWholeBlocks == \A g \in 1..Len(flist) : flist[g].hdr % 512 = 0

\* C5: provided every header size is a multiple of 512, every item's offset is a
\* multiple of 512 and header size plus padded content size is a multiple of 512
\* for every file.
C5_OffsetsAligned ==
    (LayoutKnown /\ HeadersWholeBlocks) =>
        \A r \in Ranks : \A idx \in 1..counts[r] :
            /\ lay[r].offsets[idx] % 512 = 0
            /\ LocalList(r)[idx].type = "FILE" => lay[r].entry_sizes[idx] % 512 = 0

C5_Witness ==
    /\ LayoutKnown /\ HeadersWholeBlocks
    /\ Len(flist) = 2 /\ flist[1].type = "FILE" /\ flist[1].size = 513
    /\ flist[2].type = "FILE" /\ ranks = 2 /\ counts[1] = 1

\* C6: the padded content size of a file is a multiple of 512, is at least the
\* file size and exceeds it by less than 512; it is 0 for directories and symlinks.
C6_PaddedSize ==
    \A r \in Ranks : pc[r] # "start" =>
        \A idx \in 1..counts[r] :
            LET e      == LocalList(r)[idx]
                padded == lay[r].entry_sizes[idx] - lay[r].header_sizes[idx]
            IN  /\ e.type = "FILE" =>
                      padded % 512 = 0 /\ padded >= e.size /\ padded - e.size < 512
                /\ e.type \in {"DIR", "LINK"} => padded = 0

C6_Witness ==
    \E r \in Ranks : /\ pc[r] # "start" /\ counts[r] = 2
                      /\ LocalList(r)[1].type = "FILE" /\ LocalList(r)[1].size = 1025
                      /\ lay[r].entry_sizes[1] - lay[r].header_sizes[1] = 1536
                      /\ LocalList(r)[2].type = "FILE" /\ LocalList(r)[2].size = 512

\* the byte p of the archive that lays the items out one after the other
IntendedByte(p) ==
    IF \E g \in 1..Len(flist) : /\ flist[g].type \in {"FILE", "DIR", "LINK"}
                                /\ SizeBefore(g) <= p /\ p < SizeBefore(g) + flist[g].hdr
    THEN LET g == CHOOSE h \in 1..Len(flist) :
                     /\ flist[h].type \in {"FILE", "DIR", "LINK"}
                     /\ SizeBefore(h) <= p /\ p < SizeBefore(h) + flist[h].hdr
         IN  << "hdr", g, p - SizeBefore(g) >>
    ELSE IF \E g \in 1..Len(flist) :
               /\ flist[g].type = "FILE"
               /\ SizeBefore(g) + flist[g].hdr <= p
               /\ p < SizeBefore(g) + flist[g].hdr + flist[g].size
    THEN LET g == CHOOSE h \in 1..Len(flist) :
                     /\ flist[h].type = "FILE"
                     /\ SizeBefore(h) + flist[h].hdr <= p
                     /\ p < SizeBefore(h) + flist[h].hdr + flist[h].size
         IN  << "data", g, p - (SizeBefore(g) + flist[g].hdr) >>
    ELSE << "zero", 0, 0 >>

IntendedLen == SizeBefore(Len(flist) + 1) + 1024

\* the positions at which what the archive holds, or is meant to hold, can change;
\* between two of them the bytes run on as they started
CutPoints ==
    {0} \cup { w.off : w \in writes } \cup { w.off + w.len : w \in writes }
        \cup { SizeBefore(g) : g \in 1..(Len(flist) + 1) }
        \cup { SizeBefore(g) + flist[g].hdr : g \in 1..Len(flist) }
        \cup { SizeBefore(g) + flist[g].hdr + flist[g].size : g \in 1..Len(flist) }

AllDone == \A r \in Ranks : pc[r] = "done"

C2_SameAsOneRank ==
    AllDone =>
        /\ archive_len = IntendedLen
        /\ \A p \in CutPoints : p < IntendedLen => ArchiveBytes(p) = { IntendedByte(p) }

C7_IndexPointsAtHeaders ==
    (AllDone /\ index_file # Absent) =>
        LET offs == IndexOffsets(index_file)
        IN  /\ Len(offs) = Len(flist)
            /\ \A i \in 1..Len(offs) : ArchiveBytes(offs[i]) = { << "hdr", i, 0 >> }
            /\ \A i \in 1..Len(offs) : \A j \in 1..Len(offs) : i # j => offs[i] # offs[j]

\* the offsets of all ranks one after the other in rank order
RECURSIVE OffsetsUpTo(_)
OffsetsUpTo(r) == IF r < 0 THEN <<>> ELSE OffsetsUpTo(r - 1) \o lay[r].offsets

\* byte k (1 to 8) of the big-endian encoding of v < 2^32
BigEndianByte(v, k) ==
    IF k <= 4 THEN 0
    ELSE IF k = 5 THEN (v \div 16777216) % 256
    ELSE IF k = 6 THEN (v \div 65536) % 256
    ELSE IF k = 7 THEN (v \div 256) % 256
    ELSE v % 256

\* C8: when every rank has called write_entry_index and the write succeeded, the
\* index file holds 8 * total bytes, the big-endian encodings of the offsets of
\* all ranks in rank order, and read_entry_index then returns success on every
\* rank with count = total and the same offsets in the same order.
C8_IndexRoundTrip ==
    LET all == OffsetsUpTo(ranks - 1)
    IN  (\A r \in Ranks : pc[r] = "done") =>
            /\ index_file # Absent
            /\ Len(index_file) = 8 * Len(all)
            /\ \A i \in 1..Len(all) : \A k \in 1..8 :
                  index_file[8 * (i - 1) + k] = BigEndianByte(all[i], k)
            /\ \A r \in XRanks : xpc[r] # "idle" =>
                  /\ xpc[r] = "partition"
                  /\ ext[r].ret = MFU_SUCCESS
                  /\ ext[r].entries = Len(all)
                  /\ ext[r].offsets = all

AllPartitioned == \A r \in XRanks : xpc[r] = "flist"

\* C10: the ranges of entries the ranks of extract take are pairwise disjoint and
\* contiguous and cover all E entries; the first E mod R ranks take the ceiling
\* of E / R entries and the others the floor.
C10_EntryRanges ==
    LET E == ext[0].entries
    IN  /\ \A r \in XRanks : xpc[r] = "flist" =>
              ext[r].entry_count = (E \div xranks) + (IF r < E % xranks THEN 1 ELSE 0)
        /\ AllPartitioned =>
              /\ \A r \in XRanks :
                    ext[r].entry_start = ScanBefore([q \in XRanks |-> ext[q].entry_count], r)
              /\ \A i \in 0..(E - 1) :
                    Cardinality({ r \in XRanks : /\ ext[r].entry_start <= i
                                                /\ i < ext[r].entry_start + ext[r].entry_count }) = 1
              /\ \A r \in XRanks : ext[r].entry_start + ext[r].entry_count <= E

C10_Witness ==
    /\ AllPartitioned
    /\ xranks = 4 /\ ext[0].entries = 6
    /\ ext[1].entry_count = 2 /\ ext[2].entry_count = 1 /\ ext[3].entry_start = 5

ExtractOver == \A r \in XRanks : xpc[r] = "done"

\* the values byte k of extracted file g can have
DiskBytes(g, k) ==
    IF \E s \in disk[g].segs : s.foff <= k /\ k < s.foff + s.len
    THEN UNION { ArchiveBytes(s.apos + (k - s.foff)) :
                    s \in { t \in disk[g].segs : t.foff <= k /\ k < t.foff + t.len } }
    ELSE { << "zero", 0, 0 >> }

\* the length of extracted file g
RECURSIVE SegsEnd(_)
SegsEnd(segs) ==
    IF segs = {} THEN 0
    ELSE LET s == CHOOSE t \in segs : TRUE
             e == SegsEnd(segs \ {s})
         IN  IF s.foff + s.len > e THEN s.foff + s.len ELSE e

\* the positions of extracted file g at which its bytes can change
DiskCuts(g) ==
    {0} \cup { s.foff : s \in disk[g].segs }
        \cup UNION { { s.foff + (c - s.apos) :
                          c \in { d \in CutPoints : s.apos <= d /\ d < s.apos + s.len } } :
                      s \in disk[g].segs }

\* C9: extracting the archive create made of a list of files, directories and
\* symlinks leaves exactly the items of the list, with their types and sizes and
\* with file contents equal to the originals, whatever the rank counts.
C9_RoundTrip ==
    ExtractOver =>
        \A g \in 1..Len(flist) :
            /\ disk[g].type = flist[g].type
            /\ flist[g].type = "FILE" =>
                  /\ SegsEnd(disk[g].segs) = flist[g].size
                  /\ \A k \in DiskCuts(g) :
                        k < flist[g].size => DiskBytes(g, k) = { << "data", g, k >> }

(***************************************************************************)
(* The order of the phases of create                                        *)
(***************************************************************************)

\* rank r has not yet passed the barrier that follows the truncate
BeforeHeaders(r) == pc[r] \in {"start", "scan", "index", "truncate", "barrier"}

\* rank r has left the loop that writes its headers
HeadersWritten(r) == ~BeforeHeaders(r) /\ pc[r] # "headers"

\* rank r has left the data phase of its engine
DataWritten(r) == pc[r] \in {"trailer", "close", "alltrue", "done"}

\* C14: no rank writes a header or data to the archive before rank 0 has
\* truncated the archive to 0 and extended it to archive_size + 1024 bytes.
C14_TruncateBeforeWrites ==
    writes # {} =>
        /\ ~BeforeHeaders(0)
        /\ ~archive_old
        /\ archive_len = archive_size + TrailerSize

C14_Witness ==
    /\ ranks = 2 /\ pc[0] = "headers" /\ nwrites[0] = 0
    /\ \E w \in writes : w.rank = 1 /\ w.kind = "hdr"
    /\ archive_size + TrailerSize < 4096

C16_DataBeforeTrailer ==
    (\E w \in writes : w.kind = "trailer") => \A r \in Ranks : DataWritten(r)

\* C17: create writes the index only after the trailer: an index file never
\* exists for an archive whose headers and data have not yet been written.
C17_IndexLast ==
    index_file # Absent =>
        /\ \E w \in writes : w.kind = "trailer"
        /\ \A r \in Ranks : DataWritten(r)

\* C12: when any I/O step of create fails on a rank (opening the archive,
\* truncating or extending it, writing a header, opening or reading a source
\* file, writing data, writing the trailer, closing the archive, writing the
\* index file) that rank's error flag is set and create returns failure on
\* every rank.
C12_FailureReported ==
    AllDone =>
        /\ \A f \in failed : DTAR_err[f[1]] = 1
        /\ failed # {} => \A r \in Ranks : rc[r] = MFU_FAILURE

(***************************************************************************)
(* Extract                                                                  *)
(***************************************************************************)

\* rank r has returned from mfu_flist_mkdir
PastMkdir(r) ==
    xpc[r] \notin {"idle", "scan_index", "partition", "flist", "flist_loop", "flist_sync",
                   "mkdir", "mkdir_done", "exited", "corrupt"}

\* C18: in every extract path, when a file or a symlink exists in the target
\* directory every rank has returned from the creation of the directories and
\* every directory of the list of every rank exists.
C18_DirsBeforeFiles ==
    (\E g \in DOMAIN disk : disk[g].type \in {"FILE", "LINK"}) =>
        \A r \in XRanks :
            /\ PastMkdir(r)
            /\ \A g \in LocalItems(r, {"DIR"}) : disk[g].type = "DIR"

\* two ranks that scan the archive themselves have extracted a file next to a
\* directory
C18_Witness ==
    /\ xranks = 2
    /\ \A r \in XRanks : ~ext[r].have_offsets /\ xpc[r] = "la_sync"
    /\ \E g \in DOMAIN disk : disk[g].type = "FILE"
    /\ \E g \in DOMAIN disk : disk[g].type = "DIR"

\* rank r has finished creating and writing the items it is responsible for
ItemsFinished(r) ==
    xpc[r] \in {"symlink_sync", "la_sync", "meta", "meta_done", "done", "aborted"}

\* C19: in every extract path a directory has its timestamps and permissions
\* set only when every rank has finished creating and writing the items it is
\* responsible for.
C19_MetaAfterItems ==
    \A g \in DOMAIN disk :
        (disk[g].type = "DIR" /\ disk[g].meta) => \A r \in XRanks : ItemsFinished(r)

\* a rank has met an error that extract cannot recover from: every failure
\* but that of the scan for offsets, which has a fallback
FatalHit == \E r \in XRanks : ext[r].hit \ {"xscan"} # {}

\* C13: in extract no rank ends the process on its own, and when a rank has
\* met a fatal error and extract is over, every rank has returned failure.
C13_NoExitOnError ==
    /\ \A r \in XRanks : xpc[r] # "exited"
    /\ ((\A r \in XRanks : xpc[r] = "done") /\ FatalHit) =>
            \A r \in XRanks : ext[r].returned = MFU_FAILURE

\* every rank has returned from create and from extract
AllReturned ==
    /\ \A r \in Ranks : pc[r] = "done"
    /\ \A r \in XRanks : xpc[r] = "done"

\* C11: in create and in every extract path, whatever the number of entries
\* of a rank and whatever step failed on a rank, the run does not come to a
\* halt before every rank has returned: no rank waits in a collective that
\* another rank never enters.
C11_AllRanksReturn == ~(ENABLED NextExtract) => AllReturned

\* read_entry_index has run and rank 0 found no index file
NoIndexFound == (\A r \in XRanks : xpc[r] # "idle") /\ ~ext[0].have_index

\* C20: when the index file does not exist, every rank learns from
\* read_entry_index that there is no index and goes on to the scan of the
\* archive, and if no later step fails extract returns success on every rank.
C20_NoIndexFallback ==
    NoIndexFound =>
        /\ \A r \in XRanks : ~ext[r].have_index /\ xpc[r] # "corrupt"
        /\ (faults = {} /\ \A r \in XRanks : xpc[r] = "done") =>
                \A r \in XRanks : ext[r].returned = MFU_SUCCESS

(***************************************************************************)
(* Extract with and without the index                                       *)
(***************************************************************************)

\* C21: for an archive made by create from any list, extract with the index
\* file and extract with the index file deleted return the same result code on
\* every rank and leave the same items with the same contents.
C21_SameWithoutIndex ==
    (env.again /\ \A r \in XRanks : xpc[r] = "done") =>
        /\ \A r \in XRanks : ext[r].returned = env.returned[r]
        /\ Left = env.left

\* the number of entries the archive holds
ArchiveEntries == Len(ScanArchive(0, <<>>).offsets)

\* C22: when the index file has lost its last eight bytes, so that it lists
\* fewer entries than the archive holds, extract returns failure on every rank.
C22_ShortIndexDetected ==
    (/\ env.cut
     /\ \A r \in XRanks : xpc[r] = "done"
     /\ ext[0].entries < ArchiveEntries) =>
        \A r \in XRanks : ext[r].returned = MFU_FAILURE

\* C23: when extract has returned, no rank holds an open descriptor of the
\* archive.
C23_DescriptorsClosed ==
    (\A r \in XRanks : xpc[r] = "done") => \A r \in XRanks : ext[r].fds = 0

\* C24: in the dynamic engine a zero-byte regular file has exactly one work
\* item; processing it writes no body bytes and leaves the error flag of the
\* rank as it was, and a create without I/O errors returns success.
C24_ZeroByteFile ==
    create_libcircle = 1 =>
        /\ \A r \in Ranks : pc[r] \in {"enqueue", "process"} =>
              \A idx \in 1..counts[r] :
                  (LocalList(r)[idx].type = "FILE" /\ LocalList(r)[idx].size = 0) =>
                      Cardinality(EnqueueItem(r, idx, ChunkSize)) = 1
        /\ \A op \in queue : op.file_size = 0 =>
              \A r \in Ranks :
                  LET res == DTAR_perform_copy(op, DTAR_err[r], ChunkSize)
                  IN  /\ \A i \in 1..Len(res.ws) : res.ws[i].kind # "data"
                      /\ res.err = DTAR_err[r]
        /\ AllDone => \A r \in Ranks : rc[r] = MFU_SUCCESS

\* the number of work items of a file of S bytes: max(1, ceil(S / C))
WorkItems(S, C) == IF S = 0 THEN 1 ELSE (S + C - 1) \div C

\* the work items rank r owes: for each regular file of its list one per chunk
\* index, with the position of the first byte of the file's data
ItemsOwed(r) ==
    UNION { IF LocalList(r)[idx].type = "FILE"
            THEN { [ent |-> GlobalStart(r) + idx,
                    file_size |-> LocalList(r)[idx].size,
                    chunk_index |-> k,
                    offset |-> lay[r].offsets[idx] + HeaderSizeOf(LocalList(r)[idx])] :
                       k \in 0..(WorkItems(LocalList(r)[idx].size, ChunkSize) - 1) }
            ELSE {} : idx \in 1..counts[r] }

\* C25: DTAR_enqueue_copy on a rank adds, for every regular file of size S of
\* the rank, max(1, ceil(S / C)) work items with the chunk indices 0, 1, ...,
\* all with the file's data offset, and nothing for items of other types.
C25_EnqueueCount ==
    [][\A r \in Ranks :
          (pc[r] = "enqueue" /\ pc'[r] = "process") =>
              /\ queue' = queue \cup ItemsOwed(r)
              /\ Cardinality(queue' \ queue) =
                    SumSeq([idx \in 1..counts[r] |->
                              IF LocalList(r)[idx].type = "FILE"
                              THEN WorkItems(LocalList(r)[idx].size, ChunkSize) ELSE 0])]_vars

\* the work items of a file of more than one chunk, of a file of no bytes and
\* of no directory are in the queue
C25_Witness ==
    /\ \E op \in queue : op.chunk_index = 1
    /\ \E op \in queue : op.file_size = 0
    /\ \A r \in Ranks : pc[r] = "process"

Unsupported(e) == e.type \notin {"FILE", "DIR", "LINK"}

\* every entry of supported type is archived without setting the error flag:
\* no I/O step fails, and the dynamic engine meets no empty file
OthersSucceed ==
    /\ faults = {}
    /\ create_libcircle = 1 => \A g \in 1..Len(flist) : flist[g].type = "FILE" => flist[g].size > 0

\* C26: an entry of unsupported type takes no bytes in the layout, no header
\* and no data is written for it, and create returns success on every rank
\* when the entries of supported type are archived without error.
C26_UnsupportedSkipped ==
    /\ \A r \in Ranks : \A idx \in 1..counts[r] :
          (Unsupported(LocalList(r)[idx]) /\ pc[r] # "start") =>
              /\ lay[r].header_sizes[idx] = 0
              /\ lay[r].entry_sizes[idx] = 0
              /\ \A w \in writes : w.kind \in {"hdr", "data", "pad"} => w.ent # GlobalStart(r) + idx
    /\ (AllDone /\ OthersSucceed) =>
          \A r \in Ranks : DTAR_err[r] = 0 /\ rc[r] = MFU_SUCCESS

\* create has returned for a list of two ranks that holds an unsupported entry
\* next to a file whose data was written
C26_Witness ==
    /\ AllDone /\ ranks = 2
    /\ \E g \in 1..Len(flist) : Unsupported(flist[g])
    /\ \E w \in writes : w.kind = "data"
    /\ \A r \in Ranks : rc[r] = MFU_SUCCESS

(***************************************************************************)
(* The check of the parameters and the choice of the engine                 *)
(***************************************************************************)

\* what a step of the check or of the choice of the engine leaves alone
params == << flist, ranks, counts, bigEndian, xranks, extract_libarchive, faults >>

\* the tests a rank makes itself in mfu_param_path_check_archive: the values
\* of *valid and of opts->dest_path when it reaches the label bcast
LocalCheck(r) ==
    LET num_readable == Cardinality({ i \in 1..env.numparams : i \in env.readable[r] })
    IN  IF num_readable < 1
        THEN [valid |-> 0, dest_path |-> env.dest_path[r]]
        ELSE IF env.path_stat_valid THEN [valid |-> 1, dest_path |-> "dest"]
        ELSE IF ~env.writable[r] THEN [valid |-> 0, dest_path |-> "dest"]
        ELSE [valid |-> 1, dest_path |-> "dest"]

\* mfu_param_path_check_archive up to the broadcast
CheckArchive(r) ==
    /\ pc[r] = "check"
    /\ env' = [env EXCEPT !.valid[r] = LocalCheck(r).valid,
                          !.dest_path[r] = LocalCheck(r).dest_path]
    /\ pc' = [pc EXCEPT ![r] = "bcast"]
    /\ UNCHANGED << params, create_libcircle, xvars, src_cache, DTAR_err, lay, archive_size,
                    index_file, archive_len, archive_old, writes, nwrites, gathered,
                    data_chunks, queue, rc, failed >>

\* MPI_Bcast(valid, 1, MPI_INT, 0, MPI_COMM_WORLD)
CheckBcast ==
    /\ \A r \in Ranks : pc[r] = "bcast"
    /\ env' = [env EXCEPT !.valid = [r \in Ranks |-> env.valid[0]]]
    /\ pc' = [r \in Ranks |-> "checked"]
    /\ UNCHANGED << params, create_libcircle, xvars, src_cache, DTAR_err, lay, archive_size,
                    index_file, archive_len, archive_old, writes, nwrites, gathered,
                    data_chunks, queue, rc, failed >>

\* the test of *valid after the broadcast: the rank returns or goes to the barrier
CheckVerdict(r) ==
    /\ pc[r] = "checked"
    /\ pc' = [pc EXCEPT ![r] = IF env.valid[r] = 0 THEN "check_barrier" ELSE "returned"]
    /\ UNCHANGED << fixed, xvars, src_cache, DTAR_err, lay, archive_size,
                    index_file, archive_len, archive_old, writes, nwrites, gathered,
                    data_chunks, queue, rc, failed >>

\* MPI_Barrier and DTAR_exit(EXIT_FAILURE)
CheckExit ==
    /\ \A r \in Ranks : pc[r] = "check_barrier"
    /\ pc' = [r \in Ranks |-> "exited"]
    /\ rc' = [r \in Ranks |-> "EXIT_FAILURE"]
    /\ UNCHANGED << fixed, xvars, src_cache, DTAR_err, lay, archive_size,
                    index_file, archive_len, archive_old, writes, nwrites, gathered,
                    data_chunks, queue, failed >>

\* the values MFU_FLIST_ARCHIVE_CREATE has in the modelled runs; "unset" is
\* getenv returning NULL
EnvValues == {"unset", "LIBCIRCLE", "CHUNK", "libcircle", "1"}

\* an override that tests only whether the variable is set
OverrideAny(value, option) == IF value = "unset" THEN option ELSE 1

\* opts->create_libcircle after the test of the environment variable
Override(value, option) ==
    IF value = "unset" THEN option
    ELSE IF value = "LIBCIRCLE" THEN 1
    ELSE IF value = "CHUNK" THEN 0
    ELSE option

\* mfu_flist_archive_create: the option is overridden and the engine entered
ArchiveCreate(r) ==
    /\ pc[r] = "entry"
    /\ create_libcircle' = Override(env.create, create_libcircle)
    /\ pc' = [pc EXCEPT ![r] = "start"]
    /\ UNCHANGED << params, env, xvars, src_cache, DTAR_err, lay, archive_size,
                    index_file, archive_len, archive_old, writes, nwrites, gathered,
                    data_chunks, queue, rc, failed >>

ParamItems == { Item("FILE", 513, 512), Item("DIR", 0, 512) }

\* the views the ranks have of the source paths and of the destination
CheckedEnvs ==
    UNION { { [NoEnv EXCEPT !.numparams = n, !.readable = rd, !.path_stat_valid = psv,
                            !.writable = w,
                            !.valid = [r \in Ranks |-> Unknown],
                            !.dest_path = [r \in Ranks |-> mfu_archive_opts_new.dest_path]] :
                rd \in [Ranks -> SUBSET (1..n)], psv \in BOOLEAN, w \in [Ranks -> BOOLEAN] } :
            n \in 0..MaxParams }

\* a run checks the parameters, or it creates an archive with the options as
\* mfu_archive_opts_new left them or with create_libcircle set by the caller
InitParams ==
    /\ \/ /\ CreateInitAt({<<>>}, {mfu_archive_opts_new.create_libcircle}, {FALSE}, {0}, "check")
          /\ env \in CheckedEnvs
       \/ /\ CreateInitAt(ListsOver(ParamItems, MaxEntries),
                          {mfu_archive_opts_new.create_libcircle, 1}, {FALSE}, {0}, "entry")
          /\ env \in { [NoEnv EXCEPT !.create = v, !.option = create_libcircle] :
                       v \in EnvValues }
    /\ ExtractInit({1})
    /\ extract_libarchive = mfu_archive_opts_new.extract_libarchive
    /\ faults = {}

NextParams ==
    \/ \E r \in Ranks : CheckArchive(r)
    \/ CheckBcast
    \/ \E r \in Ranks : CheckVerdict(r)
    \/ CheckExit
    \/ \E r \in Ranks : ArchiveCreate(r)
    \/ CreateNext

SpecParams == InitParams /\ [][NextParams]_vars

\* rank 0 finds a readable source, and the destination or a writable parent
Rank0Valid ==
    /\ \E i \in 1..env.numparams : i \in env.readable[0]
    /\ env.path_stat_valid \/ env.writable[0]

\* C29: in mfu_param_path_check_archive every rank ends with rank 0's verdict
\* in valid; no rank returns when the verdict is invalid, all ranks exit with
\* a failure code; when it is valid every rank returns with dest_path set.
C29_CheckVerdict ==
    \A r \in Ranks :
        /\ pc[r] = "returned" =>
              /\ Rank0Valid
              /\ env.valid[r] = 1
              /\ env.dest_path[r] # mfu_archive_opts_new.dest_path
        /\ pc[r] = "exited" =>
              /\ ~Rank0Valid
              /\ env.valid[r] = 0
              /\ rc[r] = "EXIT_FAILURE"

\* the engine a finished create ran: only the static engine gathers the offsets
EngineRun == IF gathered.rank_disps # <<>> THEN "static" ELSE "dynamic"

\* C30: mfu_flist_archive_create runs the engine opts->create_libcircle names
\* (0, the default, is the static one) when MFU_FLIST_ARCHIVE_CREATE is unset,
\* the dynamic engine when it is LIBCIRCLE and the static one when it is CHUNK
\* whatever the option was; any other value leaves the option as it was.
C30_EngineSelection ==
    (\A r \in Ranks : pc[r] \notin {"check", "bcast", "checked", "check_barrier",
                                    "returned", "exited", "entry"}) =>
        /\ env.create = "LIBCIRCLE" => create_libcircle = 1
        /\ env.create = "CHUNK" => create_libcircle = 0
        /\ env.create \notin {"LIBCIRCLE", "CHUNK"} => create_libcircle = env.option
        /\ AllDone => EngineRun = (IF create_libcircle = 1 THEN "dynamic" ELSE "static")

\* a create ends although the variable holds a value that is not known, and
\* it ran the default engine
C30_Witness ==
    /\ AllDone
    /\ env.create = "libcircle"
    /\ env.option = mfu_archive_opts_new.create_libcircle
    /\ EngineRun = "static"
    /\ flist # <<>>

\* C27: when the encoding of a header fails on a rank, in the layout loop or
\* in write_header, the error flag of the rank is set, the rank writes no
\* header, and create returns failure on every rank.
C27_EncodeFailureReported ==
    AllDone =>
        \A r \in Ranks :
            (lay[r].encode_rc = MFU_FAILURE \/ << r, "header" >> \in failed) =>
                /\ DTAR_err[r] = 1
                /\ \A w \in writes : w.kind = "hdr" => w.rank # r
                /\ \A q \in Ranks : rc[q] = MFU_FAILURE

\* a write to the archive transferred fewer bytes than were asked for
ShortWrites == { w \in writes : w.len < w.req }

\* C28: in create, a header write or a data write of the static engine that
\* transfers fewer bytes than requested sets the error flag of the rank and
\* create returns failure.
C28_ShortWriteIsError ==
    AllDone =>
        \A w \in ShortWrites :
            /\ DTAR_err[w.rank] = 1
            /\ \A q \in Ranks : rc[q] = MFU_FAILURE

(***************************************************************************)
(* Progress messages: a run of create and extract, and the same run once    *)
(* more with another progress timeout                                       *)
(***************************************************************************)

\* a reduction that leaves its result in the error flag of rank 0
ProgressReduceErr ==
    /\ env.progress_timeout > 0
    /\ env.messages < MaxMessages
    /\ \/ \E r \in Ranks : pc[r] \in {"copy", "process"}
       \/ \E r \in XRanks : xpc[r] \in {"xcopy", "la_extract"}
    /\ env' = [env EXCEPT !.messages = @ + 1]
    /\ DTAR_err' = [DTAR_err EXCEPT ![0] = 1]
    /\ UNCHANGED << params, create_libcircle, xvars, src_cache, pc, lay, archive_size,
                    index_file, archive_len, archive_old, writes, nwrites, gathered,
                    data_chunks, queue, rc, failed >>

\* one reduction of the progress values while some rank copies data: rank 0
\* prints a message with the sums; there is none when the timeout is 0
ProgressReduce ==
    /\ env.progress_timeout > 0
    /\ env.messages < MaxMessages
    /\ \/ \E r \in Ranks : pc[r] \in {"copy", "process"}
       \/ \E r \in XRanks : xpc[r] \in {"xcopy", "la_extract"}
    /\ env' = [env EXCEPT !.messages = @ + 1]
    /\ UNCHANGED << params, create_libcircle, cvars, xvars >>

\* what a run of create and extract leaves: the archive, the index, the
\* extracted items and the return values
RunResults ==
    [len |-> archive_len, bytes |-> [p \in CutPoints |-> ArchiveBytes(p)],
     index |-> index_file, rc |-> rc, left |-> Left,
     returned |-> [r \in XRanks |-> ext[r].returned]]

\* the archive, its index and the extracted items are deleted and the same
\* create and extract are run with the other progress timeout
RunAgain ==
    /\ \A r \in XRanks : xpc[r] = "done"
    /\ ~env.again
    /\ env' = [env EXCEPT !.again = TRUE, !.first = RunResults, !.messages = 0,
                          !.progress_timeout = 1 - @]
    /\ pc' = [r \in Ranks |-> "start"]
    /\ DTAR_err' = [r \in Ranks |-> 0]
    /\ src_cache' = [r \in Ranks |-> NoCache]
    /\ lay' = [r \in Ranks |-> EmptyLayout]
    /\ archive_size' = 0
    /\ index_file' = Absent
    /\ archive_len' = 0
    /\ archive_old' = FALSE
    /\ writes' = {}
    /\ nwrites' = [r \in Ranks |-> 0]
    /\ gathered' = [rank_disps |-> <<>>, all_offsets |-> <<>>]
    /\ data_chunks' = [r \in Ranks |-> <<>>]
    /\ queue' = {}
    /\ rc' = [r \in Ranks |-> "none"]
    /\ failed' = {}
    /\ xpc' = [r \in XRanks |-> "idle"]
    /\ ext' = [r \in XRanks |-> NoExtract]
    /\ disk' = [g \in DOMAIN disk |-> [type |-> "none", segs |-> {}, meta |-> FALSE]]
    /\ UNCHANGED << params, create_libcircle >>

ProgressItems == { Item("FILE", 513, 512), Item("DIR", 0, 512) }

InitProgress ==
    /\ CreateInit(ListsOver(ProgressItems, MaxEntries), {0, 1}, {FALSE}, {0})
    /\ ranks = 1
    /\ ExtractInit(1..MaxRanks)
    /\ extract_libarchive \in {0, 1}
    /\ faults = {}
    /\ env \in { [NoEnv EXCEPT !.progress_timeout = t] : t \in {0, 1} }

NextProgress ==
    \/ CreateNext
    \/ ExtractNext
    \/ XLaOpen
    \/ \E r \in XRanks : XLaExtract(r)
    \/ XLaSync
    \/ ProgressReduce
    \/ RunAgain

SpecProgress == InitProgress /\ [][NextProgress]_vars

Changed(s, c) == [type |-> "FILE", size |-> s, hdr |-> 512, cur |-> c]

\* files as they were recorded, files that grew and files that were cut
ChangedItems ==
    { Changed(513, 513), Changed(513, 600), Changed(513, 100), Changed(512, 1100),
      Item("DIR", 0, 512) }

InitChanged ==
    /\ CreateInit(ListsOver(ChangedItems, MaxEntries), {0, 1}, {FALSE}, {0})
    /\ ExtractInit({1})
    /\ Nominal

SpecChanged == InitChanged /\ [][Next]_vars

\* the position in the archive of the content of item g
DataOffset(g) == SizeBefore(g) + flist[g].hdr

\* C32: in the dynamic engine the data bytes a work item with chunk index k of
\* a file of recorded size S writes start at data_offset + k * C and number at
\* most min(C, S - k * C): no data byte is written past data_offset + S,
\* whatever the source file yields now.
C32_ChunkWithinFile ==
    create_libcircle = 1 =>
        \A w \in writes : w.kind = "data" =>
            LET k == w.foff \div ChunkSize
                S == flist[w.ent].size
            IN  /\ w.off = DataOffset(w.ent) + w.foff
                /\ w.foff + w.len <= Min((k + 1) * ChunkSize, S)
                /\ w.off + w.len <= DataOffset(w.ent) + S

\* the padding writes made for item g
PadWrites(g) == { w \in writes : w.kind = "pad" /\ w.ent = g }

\* the zero bytes that fill the content of a file of S bytes up to a block
PadLen(S) == (BlockSize - (S % BlockSize)) % BlockSize

\* C33: in the dynamic engine padding is written for a file by one work item
\* only, PadLen(S) zero bytes right after the last data byte of the file (for
\* a rank whose error flag is not set), and none when S is a multiple of 512;
\* when all items were processed without error the padded content region of
\* every file holds its content followed by zeros.
C33_PaddingOnce ==
    create_libcircle = 1 =>
        \A g \in 1..Len(flist) : flist[g].type = "FILE" =>
            LET S == flist[g].size
            IN  /\ Cardinality(PadWrites(g)) <= 1
                /\ PadLen(S) = 0 => PadWrites(g) = {}
                /\ \A w \in PadWrites(g) :
                      /\ w.len = PadLen(S)
                      /\ DTAR_err[w.rank] = 0 => w.off = DataOffset(g) + S
                /\ (AllDone /\ \A r \in Ranks : DTAR_err[r] = 0) =>
                      /\ PadLen(S) > 0 => Cardinality(PadWrites(g)) = 1
                      /\ \A p \in CutPoints :
                            (DataOffset(g) <= p /\ p < DataOffset(g) + PadSize(S)) =>
                                ArchiveBytes(p) = { IntendedByte(p) }


(***************************************************************************)
(* The dynamic engine with failing work items, run to its end               *)
(***************************************************************************)

\* the steps of DTAR_perform_copy that can fail
CopyFaults == {"srcopen", "read", "write"}

InitDrain ==
    /\ CreateInit(ListsOver(FaultItems, MaxEntries), {1}, {FALSE}, {0})
    /\ ExtractInit({1})
    /\ extract_libarchive = 0
    /\ faults \in {{}} \cup { { << r, k >> } : r \in Ranks, k \in CopyFaults }
    /\ env = NoEnv

\* create with the dynamic engine
CreateCircleNext ==
    \/ \E r \in Ranks : Layout(r)
    \/ LayoutSync
    \/ WriteIndex
    \/ Truncate
    \/ BarrierHeaders
    \/ \E r \in Ranks : WriteHeaders(r)
    \/ CircleInit
    \/ \E r \in Ranks : Enqueue(r)
    \/ \E r \in Ranks : Process(r)
    \/ CircleDone
    \/ Trailer
    \/ \E r \in Ranks : Close(r)
    \/ AllTrue

\* every rank keeps running: a step that moves a rank on or takes a work item
\* from the queue, once it can be taken, is taken in the end
SpecDrain == InitDrain /\ [][CreateCircleNext]_vars /\ WF_<< pc, queue >>(CreateCircleNext)

\* how far a rank has come in the engine and in what follows it
Phase(p) ==
    CASE p = "circle_init" -> 1
      [] p = "enqueue"     -> 2
      [] p = "process"     -> 3
      [] p = "trailer"     -> 4
      [] p = "close"       -> 5
      [] p = "alltrue"     -> 6
      [] p = "done"        -> 7
      [] OTHER             -> 0

\* every rank has reached the engine and not every rank has returned
InEngine ==
    /\ \A r \in Ranks : Phase(pc[r]) >= 1
    /\ \E r \in Ranks : Phase(pc[r]) <= 6

\* some step of the engine or of the end of create can be taken
Runnable ==
    \/ \A r \in Ranks : pc[r] = "circle_init"
    \/ \E r \in Ranks : pc[r] = "enqueue"
    \/ \E r \in Ranks : pc[r] = "process" /\ queue # {}
    \/ queue = {} /\ \A r \in Ranks : pc[r] = "process"
    \/ pc[0] = "trailer"
    \/ \E r \in Ranks : pc[r] = "close"
    \/ \A r \in Ranks : pc[r] = "alltrue"

\* a step of the engine takes a work item from the queue or moves a rank on,
\* and no rank goes back: no run of the engine is infinite
Advance ==
    InEngine =>
        \/ pc' = pc /\ queue' \subseteq queue /\ queue' # queue
        \/ /\ \A r \in Ranks : Phase(pc'[r]) >= Phase(pc[r])
           /\ \E r \in Ranks : Phase(pc'[r]) > Phase(pc[r])

\* the queue changes by the work items of a rank that enters the engine, none
\* of which is queued already, or by one work item that is dequeued
QueueStep ==
    queue' # queue =>
        \/ \E r \in Ranks :
              /\ pc[r] = "enqueue" /\ pc'[r] = "process"
              /\ queue' = queue \cup DTAR_enqueue_copy(r)
              /\ queue \cap DTAR_enqueue_copy(r) = {}
        \/ \E op \in queue : queue' = queue \ {op}

\* a step of DTAR_perform_copy that fails leaves the error flag of its rank set
FailedItemFlagged == \A f \in failed' \ failed : DTAR_err'[f[1]] = 1

\* work items are those of ranks that have entered the engine, the engine is
\* never stuck, and at the end no work item is left and a failure has made
\* every rank return failure
DrainedAtEnd ==
    /\ \A op \in queue : pc[OwnerOf(op.ent)] \in {"enqueue", "process"}
    /\ InEngine => Runnable
    /\ AllDone =>
          /\ queue = {}
          /\ failed # {} => \A r \in Ranks : rc[r] = MFU_FAILURE

\* C34: in the dynamic engine every enqueued work item is dequeued and
\* processed once, also when items fail: a failed item sets the error flag of
\* the rank that processed it, the queue drains, the engine terminates and
\* create returns failure on every rank.
C34_QueueDrains ==
    /\ [][QueueStep /\ FailedItemFlagged /\ Advance]_vars
    /\ []DrainedAtEnd

\* a create has ended in which a work item failed on one of two ranks
C34_Witness ==
    /\ AllDone /\ ranks = 2
    /\ \E f \in failed : f[2] \in CopyFaults
    /\ \E w \in writes : w.kind = "data"
    /\ \A r \in Ranks : rc[r] = MFU_FAILURE


(***************************************************************************)
(* The lookup of data offsets in the static engine                          *)
(***************************************************************************)

\* the writes of the set ws transfer bytes to every position from lo up to
\* hi, each once, and to no other: they are disjoint, each starts at lo or
\* where another ends, and one ends at hi
CoversOnce(ws, lo, hi) ==
    /\ \A w \in ws : w.len > 0 /\ lo <= w.off /\ w.off + w.len <= hi
    /\ \A w \in ws : w.off = lo \/ \E u \in ws : u.off + u.len = w.off
    /\ \A w, u \in ws : w = u \/ w.off + w.len <= u.off \/ u.off + u.len <= w.off
    /\ lo < hi => \E w \in ws : w.off + w.len = hi

\* rank r takes the chunk at the head of its list in this step
TakesChunk(r) ==
    /\ create_libcircle = 0
    /\ pc[r] = "copy"
    /\ data_chunks[r] # <<>>
    /\ data_chunks'[r] = Tail(data_chunks[r])

\* the value the static engine looks up for chunk p
LookedUp(p) == gathered.all_offsets[gathered.rank_disps[p.rank_of_owner] + p.index_of_owner + 1]

\* C35: in the static engine, for every chunk a rank processes, the value
\* all_offsets[rank_disps[owner_rank] + index_of_owner] is the global offset
\* of the chunk's entry plus its header size, as its owner computed them, and
\* the bytes of the chunk are written to the archive positions from that
\* value + offset up to that value + offset + length.
C35_LookupIsDataOffset ==
    [][\A r \in Ranks : TakesChunk(r) =>
          LET p     == Head(data_chunks[r])
              owner == lay[p.rank_of_owner]
              v     == LookedUp(p)
              new   == writes' \ writes
          IN  /\ v = owner.offsets[p.index_of_owner + 1]
                     + owner.header_sizes[p.index_of_owner + 1]
              /\ v = DataOffset(p.ent)
              /\ \A w \in new : w.kind = "data" /\ w.rank = r /\ w.ent = p.ent
              /\ \A w \in new : w.off = v + w.foff
              /\ CoversOnce(new, v + p.offset, v + p.offset + p.length)]_vars

\* a rank that does not own the file has written a chunk of it, and the
\* file is not the first item of the archive
C35_Witness ==
    /\ create_libcircle = 0
    /\ \E w \in writes :
          /\ w.kind = "data"
          /\ w.rank # OwnerOf(w.ent)
          /\ w.ent > 1
          /\ w.foff > 0

(***************************************************************************)
(* The cache slot under any sequence of calls, and under create             *)
(***************************************************************************)

\* the paths and modes the calls are made with
CachePaths == 1..MaxEntries

\* what the calls on the cache leave alone
cache_rest == << pc, DTAR_err, lay, archive_size, index_file, archive_len, archive_old,
                 writes, nwrites, gathered, data_chunks, queue, rc, failed >>

\* one call of mfu_archive_open_file on the slot of rank r
CacheOpen(r) ==
    /\ pc[r] = "cache"
    /\ \E file \in CachePaths, read_flag \in {0, 1}, ok \in BOOLEAN :
          src_cache' = [src_cache EXCEPT ![r] = mfu_archive_open_file(file, read_flag, @, ok)]
    /\ UNCHANGED << fixed, xvars, cache_rest >>

\* one call of mfu_archive_close_file on the slot of rank r
CacheClose(r) ==
    /\ pc[r] = "cache"
    /\ src_cache' = [src_cache EXCEPT ![r] = mfu_archive_close_file(@)]
    /\ UNCHANGED << fixed, xvars, cache_rest >>

\* either the ranks make calls on their slots in any order, or they run
\* create with the dynamic engine, where every open of a source may fail
InitCache ==
    /\ \E at \in {"start", "cache"} :
          /\ CreateInitAt(ListsOver(FaultItems, MaxEntries), {1}, {FALSE}, {0}, at)
          /\ at = "cache" => flist = <<>>
          /\ faults \in {{}} \cup (IF at = "start" THEN { {<< r, "srcopen" >>} : r \in Ranks }
                                  ELSE {})
    /\ ExtractInit({1})
    /\ extract_libarchive = 0
    /\ env = NoEnv

NextCache ==
    \/ CreateCircleNext
    \/ \E r \in Ranks : CacheOpen(r)
    \/ \E r \in Ranks : CacheClose(r)

SpecCache == InitCache /\ [][NextCache]_vars

\* rank r is past the data phase of create
PastData(r) == pc[r] \in {"trailer", "close", "alltrue", "done"}

\* the slot holds at most one open descriptor, the cached one; a failed open
\* leaves it empty; after the data phase it is empty
SlotSound ==
    \A r \in Ranks :
        LET c == src_cache[r]
        IN  /\ c.nfds \in {0, 1}
            /\ c.nfds = 1 <=> c.name # NULL
            /\ c.last = "failed" => c.name = NULL /\ c.nfds = 0
            /\ PastData(r) => c.name = NULL /\ c.nfds = 0

\* a descriptor is opened only for a path or mode the slot does not hold, and
\* then the slot holds that one alone, the one it held being closed
OpensOnlyNew ==
    \A r \in Ranks :
        src_cache'[r].gen # src_cache[r].gen =>
            /\ src_cache'[r].last = "opened"
            /\ src_cache'[r].nfds = 1
            /\ src_cache[r].name # NULL =>
                  << src_cache'[r].name, src_cache'[r].read >> #
                  << src_cache[r].name, src_cache[r].read >>

\* when a work item of the file a slot holds is taken, by the rank of the slot
\* or another, no descriptor is opened or closed through the slot
HitOpensNone ==
    \A r \in Ranks, op \in queue :
        (pc[r] = "process" /\ queue' = queue \ {op}
           /\ src_cache[r].name = op.ent /\ src_cache[r].read = 1) =>
            /\ src_cache'[r].gen = src_cache[r].gen
            /\ src_cache'[r].name = src_cache[r].name
            /\ src_cache'[r].nfds = src_cache[r].nfds

\* C36: after any sequence of mfu_archive_open_file and mfu_archive_close_file
\* calls on a cache slot at most one descriptor opened through the slot is
\* open; opening the cached path and mode opens nothing; opening another path
\* or mode closes the cached descriptor first; a failed open leaves the slot
\* empty; after the data phase of create the slot holds no open descriptor.
C36_SourceCache ==
    /\ []SlotSound
    /\ [][OpensOnlyNew /\ HitOpensNone]_vars

\* create is over after a rank has copied two chunks of one file one after the
\* other, the second through the descriptor its slot held, and the slot was
\* closed at the end
C36_Witness ==
    /\ AllDone
    /\ \E r \in Ranks : src_cache[r].gen = 1 /\ src_cache[r].last = "closed"
    /\ \E w, v \in writes :
          /\ w.kind = "data" /\ v.kind = "data"
          /\ v.rank = w.rank /\ v.ent = w.ent /\ v.seq < w.seq
          /\ v.foff < ChunkSize /\ w.foff >= ChunkSize

(***************************************************************************)
(* Extract by a scan of the archive on every rank                           *)
(***************************************************************************)

\* item g has an entry in the archive
HasEntry(g) == HeaderAt(SizeBefore(g)) = g

\* the position of the entry of item g among the entries of the archive, from 0
EntryPos(g) == Cardinality({ h \in 1..(g - 1) : HasEntry(h) })

\* the items whose entries a scan gives to rank r
ScanShare(r) == { g \in 1..Len(flist) : HasEntry(g) /\ EntryPos(g) % xranks = r }

\* the names in the list of rank r
Listed(r) == { ext[r].items[i].name : i \in 1..Len(ext[r].items) }

\* extract_flist on rank r puts the entries of its share in its list, each
\* once and in the order of the archive
ListsItsShare ==
    \A r \in XRanks :
        (xpc[r] = "flist" /\ ~ext[r].have_offsets /\ xpc'[r] = "flist_sync") =>
            /\ Listed(r)' = ScanShare(r)
            /\ Len(ext'[r].items) = Cardinality(ScanShare(r))
            /\ \A i, j \in 1..Len(ext'[r].items) :
                  i < j => ext'[r].items[i].name < ext'[r].items[j].name

\* extract_files on rank r writes the entries of its share and no other; the
\* entries it writes, directories apart, were on disk by no rank before
WritesItsShare ==
    \A r \in XRanks :
        (xpc[r] = "scan_extract" /\ xpc'[r] = "la_sync" /\ ext'[r].rc = MFU_SUCCESS) =>
            /\ \A g \in DOMAIN disk :
                  disk'[g] # disk[g] => g \in ScanShare(r)
            /\ \A g \in ScanShare(r) :
                  /\ disk'[g].type = flist[g].type
                  /\ flist[g].type # "DIR" => disk[g].type = "none"
                  /\ flist[g].type = "DIR" => g \in Listed(r)

\* when extract by scan has returned success every entry is in the list of
\* one rank, the rank of its share, and is on disk
ScanComplete ==
    (/\ \A r \in XRanks : xpc[r] = "done" /\ ext[r].returned = MFU_SUCCESS
     /\ \A r \in XRanks : ~ext[r].have_offsets) =>
        \A g \in 1..Len(flist) : HasEntry(g) =>
            /\ \A r \in XRanks : g \in Listed(r) <=> g \in ScanShare(r)
            /\ Cardinality({ r \in XRanks : g \in Listed(r) }) = 1
            /\ disk[g].type = flist[g].type

\* C37: in the scan extract path with R ranks the entry at position i of the
\* archive is inserted into the file list of exactly one rank and written to
\* disk by exactly one rank, both rank i mod R; no entry is skipped and none
\* is written twice.
C37_ScanRoundRobin ==
    /\ [][ListsItsShare /\ WritesItsShare]_vars
    /\ []ScanComplete

\* two ranks have extracted an archive of two entries by scan, one entry each
C37_Witness ==
    /\ xranks = 2
    /\ \A r \in XRanks : xpc[r] = "done" /\ ~ext[r].have_offsets
                            /\ Cardinality(Listed(r)) = 1
    /\ \A g \in 1..Len(flist) : disk[g].type = flist[g].type
    /\ Len(flist) = 2

(***************************************************************************)
(* The index extract writes after a scan                                    *)
(***************************************************************************)

\* the entries of rank r, from the offsets it holds
Slice(r) == [i \in 1..ext[r].entry_count |-> ext[r].offsets[ext[r].entry_start + i]]

\* the slices of the ranks up to r one after the other
RECURSIVE SlicesUpTo(_)
SlicesUpTo(r) == IF r < 0 THEN <<>> ELSE SlicesUpTo(r - 1) \o Slice(r)

\* rank 0 found no index, its scan of the archive succeeded and no later
\* step of extract fails
ScannedNoIndex == NoIndexFound /\ faults = {} /\ ScanArchive(0, <<>>).ok

\* the index file holds the scanned offsets in entry order, the slices of the
\* ranks make up that array, and a read of the file returns it
IndexIsScan ==
    LET scanned == ScanArchive(0, <<>>).offsets
        back    == read_entry_index(index_file)
    IN  /\ index_file # Absent
        /\ index_file = PackAll(scanned)
        /\ SlicesUpTo(xranks - 1) = scanned
        /\ back.rc = MFU_SUCCESS
        /\ back.count = Len(scanned)
        /\ back.offsets = scanned

\* C38: when extract finds no index and the scan of the archive succeeds,
\* extract comes to its end and writes an index file that holds exactly the
\* scanned offsets in entry order, every rank contributing the slice from
\* entry_start of entry_count offsets, so that a later read of the index
\* returns the offsets of the scan.
C38_IndexFromScan ==
    ScannedNoIndex =>
        /\ \A r \in XRanks : xpc[r] # "corrupt"
        /\ ExtractOver => IndexIsScan

(***************************************************************************)
(* The error flag of the dynamic engine                                     *)
(***************************************************************************)

\* the flag of rank r, once set, stays set
FlagStays(r) == DTAR_err[r] = 1 => DTAR_err'[r] = 1

\* rank r, its flag set, writes no data byte in this step
NoDataAfterFlag(r) ==
    DTAR_err[r] = 1 =>
        \A w \in writes' \ writes : w.rank = r => w.kind # "data"

\* C39: in the dynamic engine once DTAR_err is set on a rank it is never
\* cleared before the final all-reduce, and every work item the rank
\* processes afterwards copies no data byte into the archive.
C39_FlagSticky ==
    [][create_libcircle = 1 => \A r \in Ranks : FlagStays(r) /\ NoDataAfterFlag(r)]_vars

\* the dynamic engine is over on one rank and a file whose source is as it
\* was recorded has none of its bytes in the archive, the flag having been
\* set by another item
C39_Witness ==
    /\ create_libcircle = 1
    /\ ranks = 1
    /\ AllDone
    /\ DTAR_err[0] = 1
    /\ \E g \in 1..Len(flist) :
          /\ flist[g].type = "FILE" /\ flist[g].size > 0
          /\ flist[g].cur = flist[g].size
          /\ \A w \in writes : w.kind = "data" => w.ent # g

(***************************************************************************)
(* The end of the copy loop of the static engine                            *)
(***************************************************************************)

\* a source file of the list is shorter now than it was recorded
SourceCut == \E g \in 1..Len(flist) : flist[g].type = "FILE" /\ flist[g].cur < flist[g].size

\* C40: in the static engine the copy loop of every chunk comes to an end on
\* every rank whatever the reads and writes return, also when the source
\* yields 0 bytes before the length of the chunk was copied; create then
\* returns failure instead of looping.
C40_CopyLoopEnds ==
    create_libcircle = 0 =>
        /\ \A r \in Ranks : pc[r] # "hung"
        /\ (AllDone /\ SourceCut) => \A r \in Ranks : rc[r] = MFU_FAILURE

====
